---- MODULE Spec2Model ----
(***************************************************************************)
(* Terminal-teaser generators gen_teaser_v2 / v4 / v5 / v6.                *)
(*                                                                         *)
(* Each script is a linear batch job: a sequence of "beats" mutates the    *)
(* module-level frame list, line buffer and scroll offset, then the frames *)
(* are exported.  One action below is one whole beat (one call of a beat   *)
(* function, or one script statement), its loop unrolled by a RECURSIVE    *)
(* operator.                                                               *)
(*                                                                         *)
(* Numbers.  scroll_y is a Python float.  It is modelled in fixed point:   *)
(* an integer count of 1/Unit pixels, products truncated toward zero.      *)
(* Pixel quantities that the code keeps as ints (targets, y positions)     *)
(* stay plain integers.  The spinner's progress is an exact fraction       *)
(* num/den.  A frame is the record of what render_frame was called with.   *)
(***************************************************************************)
EXTENDS Integers, Sequences, FiniteSets, TLC

\* ------------------------------------------------------------------------
\* Bounds of the model
\* ------------------------------------------------------------------------
Unit == 1000        \* fixed-point resolution: sub-pixel steps per pixel
MaxBeats == 2       \* beats / script statements per run
MaxFrames == 70     \* cap on len(frames)
MaxTicks == 70      \* cap on iterations of the smooth_scroll harness
MaxOverlap == 10    \* audio events recorded at one frame index

\* ------------------------------------------------------------------------
\* Program constants
\* ------------------------------------------------------------------------
H == 2160
PAD_Y == 80
TITLE_BAR_H == 96
LINE_H == 92
FPS == 24
BLINK_INTERVAL == 12
SCROLL_SPEED == 15              \* 0.15, in hundredths
SAMPLE_RATE == 44100
BAR_W == 880                    \* bar_w in draw_extra
FLASH_DEFAULT == 6              \* add_flash(n_frames=6)

WHITE == <<255, 255, 255>>
DIM == <<120, 120, 130>>
PRIMARY == <<251, 113, 133>>
GREEN == <<52, 211, 153>>
YELLOW == <<250, 204, 21>>
CYAN == <<103, 232, 249>>
COMMENT_COLOR == <<180, 180, 195>>
PROMPT_COLOR == PRIMARY
CYCLE_COLORS == <<PRIMARY, GREEN, CYAN, YELLOW>>
SPINNER_LEN == 10               \* len(SPINNER) in v2
NoColor == <<>>                 \* Python None for a colour argument

Variants == {"v2", "v4", "v5", "v6"}

\* a text is a sequence of characters; the icon is one character
PROMPT_ICON == <<"moku">>
PROMPT(v) == IF v = "v2" THEN << <<(<<"arrow", " ">>), PROMPT_COLOR>> >>
                         ELSE << <<PROMPT_ICON \o <<" ">>, PROMPT_COLOR>> >>

\* ------------------------------------------------------------------------
\* Arithmetic helpers
\* ------------------------------------------------------------------------
Abs(x) == IF x < 0 THEN -x ELSE x
Max(a, b) == IF a >= b THEN a ELSE b
Min(a, b) == IF a <= b THEN a ELSE b

\* num/den truncated toward zero (Python int() of a float), den > 0
Trunc(num, den) == IF num >= 0 THEN num \div den ELSE -((-num) \div den)

\* int(scroll_offset) for a fixed-point offset
IntPx(x) == Trunc(x, Unit)

\* ------------------------------------------------------------------------
\* Scroll controller
\* ------------------------------------------------------------------------
content_bottom(lines) == Len(lines) * LINE_H

target_scroll_signslip(lines) ==
    LET content_h == content_bottom(lines)
        viewport_h == H - TITLE_BAR_H - PAD_Y * 2
    IN  Max(0, content_h - viewport_h - LINE_H * 2)

target_scroll(lines) ==
    LET content_h == content_bottom(lines)
        viewport_h == H - TITLE_BAR_H - PAD_Y * 2
    IN  Max(0, content_h - viewport_h + LINE_H * 2)

\* current and target in fixed point
smooth_scroll_nosnap(current, target) ==
    LET diff == target - current
    IN  current + Trunc(diff * SCROLL_SPEED, 100)

smooth_scroll_v2(current, target) ==
    LET diff == target - current
    IN  IF Abs(diff) < 1 * Unit THEN target
        ELSE current + Trunc(diff * SCROLL_SPEED, 100)

smooth_scroll_v4(current, target) ==
    LET diff == target - current
    IN  IF Abs(diff) < 1 * Unit THEN target
        ELSE current + Trunc(diff * SCROLL_SPEED, 100)

smooth_scroll_v5(current, target) ==
    LET diff == target - current
    IN  IF Abs(diff) < 1 * Unit THEN target
        ELSE current + Trunc(diff * SCROLL_SPEED, 100)

smooth_scroll_v6(current, target) ==
    LET diff == target - current
    IN  IF Abs(diff) < 1 * Unit THEN target
        ELSE current + Trunc(diff * SCROLL_SPEED, 100)

\* a step of 1.15 of the distance instead of 0.15
smooth_scroll_overshoot(v, current, target) ==
    LET diff == target - current
    IN  IF Abs(diff) < 1 * Unit THEN target
        ELSE current + Trunc(diff * (100 + SCROLL_SPEED), 100)

\* the smooth_scroll of the script variant v
smooth_scroll(v, current, target) ==
    CASE v = "v2" -> smooth_scroll_v2(current, target)
      [] v = "v4" -> smooth_scroll_v4(current, target)
      [] v = "v5" -> smooth_scroll_v5(current, target)
      [] OTHER    -> smooth_scroll_v6(current, target)


\* ------------------------------------------------------------------------
\* Colour helpers
\* ------------------------------------------------------------------------
\* lerp_color(c1, c2, t) with t = num/den: int(a + (b - a) * t) per channel
lerp_color(c1, c2, num, den) ==
    [k \in 1..3 |-> Trunc(c1[k] * den + (c2[k] - c1[k]) * num, den)]

\* breath_color(frame_i) = lerp_color(dim_rose, PRIMARY, (sin(0.18 i) + 1) / 2),
\* tabulated for the frame indices the model uses
BreathTable == << <<150, 66, 79>>, <<168, 74, 88>>, <<185, 82, 98>>,
                  <<202, 90, 106>>, <<216, 97, 114>>, <<229, 102, 121>> >>
breath_color(frame_i) == BreathTable[Min(frame_i, Len(BreathTable) - 1) + 1]

\* ------------------------------------------------------------------------
\* Renderer
\* ------------------------------------------------------------------------
None == [some |-> FALSE, parts |-> <<>>]           \* cursor_parts=None
Some(parts) == [some |-> TRUE, parts |-> parts]

NoExtra == [on |-> FALSE, p_num |-> 0, p_den |-> 1, fill_w |-> 0, drawn_w |-> 0,
            pc |-> 0, s |-> 0, cc |-> NoColor]

\* the keyword arguments of render_frame at their defaults
Defaults == [cursor_parts |-> None, cursor_visible |-> TRUE, extra_draw |-> NoExtra,
             prompt_color_override |-> NoColor, signoff_color |-> NoColor]

\* if y < TITLE_BAR_H - LINE_H or y > H: continue
skipped_under_header(y) == y < TITLE_BAR_H \/ y > H

skipped(y) == y < TITLE_BAR_H - LINE_H \/ y > H

\* if TITLE_BAR_H <= y <= H: the test of the cursor line and of the overlay
in_view(y) == TITLE_BAR_H <= y /\ y <= H

\* One drawing step of a frame and the rows [top, bottom] it paints.  A text
\* row drawn at y is given the rows of its line, y .. y + LINE_H.
Op(op, top, bottom) == <<[op |-> op, top |-> top, bottom |-> bottom]>>

\* the content lines the loop draws, as one step
paint_lines(base_y, drawn) ==
    IF drawn = {} THEN <<>>
    ELSE Op("lines",
            base_y + (CHOOSE i \in drawn : \A j \in drawn : i <= j) * LINE_H,
            base_y + (CHOOSE i \in drawn : \A j \in drawn : i >= j) * LINE_H + LINE_H)

\* the cursor line and the cursor block
paint_cursor(base_y, n_lines, opt) ==
    IF opt.cursor_visible /\ opt.cursor_parts.some /\ in_view(base_y + n_lines * LINE_H)
    THEN Op("cursor", base_y + n_lines * LINE_H, base_y + n_lines * LINE_H + LINE_H)
    ELSE <<>>

\* extra_draw(draw, base_y, len(lines)): the spinner line at y1 and the
\* progress bar at y2, each only when in view
paint_extra(base_y, n_lines, opt) ==
    LET y1 == base_y + n_lines * LINE_H
        y2 == base_y + (n_lines + 1) * LINE_H
    IN  IF ~opt.extra_draw.on \/ (~in_view(y1) /\ ~in_view(y2)) THEN <<>>
        ELSE Op("extra_draw", IF in_view(y1) THEN y1 ELSE y2,
                              (IF in_view(y2) THEN y2 ELSE y1) + LINE_H)

\* draw.rectangle([0, 0, W, TITLE_BAR_H], fill=TITLE_BG); draw_title_bar(draw)
paint_title ==
    Op("title_rect", 0, TITLE_BAR_H) \o Op("draw_title_bar", 0, TITLE_BAR_H)

\* the drawing steps in the order render_frame makes them
draw_order_title_first(content, cursor, extra, title) ==
    title \o content \o cursor \o extra

draw_order(content, cursor, extra, title) == content \o cursor \o extra \o title

\* One rendered frame: the arguments render_frame drew from, the content
\* lines it drew and its drawing steps.  Of the line buffer it keeps the
\* length and the newest line (older lines never change).
\* is_signoff = (len(parts) == 1 and parts[0][0] == PROMPT_ICON)   (v5, v6)
is_signoff_icon_first(parts) ==
    Len(parts) >= 1 /\ Len(parts[1][1]) >= 1 /\ parts[1][1][1] = PROMPT_ICON[1]

is_signoff(parts) == Len(parts) = 1 /\ parts[1][1] = PROMPT_ICON

\* the colour run k of a content line is drawn in: v4 replaces the colour of
\* a run whose text is the prompt (PROMPT_ICON + " ") by prompt_color_override,
\* v5 and v6 replace the colour of a signoff line by signoff_color
fill(parts, k, opt) ==
    IF opt.prompt_color_override # NoColor /\ parts[k][1] = PROMPT_ICON \o <<" ">>
    THEN opt.prompt_color_override
    ELSE IF opt.signoff_color # NoColor /\ is_signoff(parts)
    THEN opt.signoff_color
    ELSE parts[k][2]

\* the drawn content lines with a run whose colour an override replaced,
\* each with the colour used
fills(lines, drawn, opt) ==
    {<<idx, c>> \in drawn \X {opt.prompt_color_override, opt.signoff_color} :
        /\ c # NoColor
        /\ \E k \in 1..Len(lines[idx + 1]) :
              /\ fill(lines[idx + 1], k, opt) = c
              /\ \/ opt.prompt_color_override # NoColor
                        /\ lines[idx + 1][k][1] = PROMPT_ICON \o <<" ">>
                 \/ opt.signoff_color # NoColor /\ is_signoff(lines[idx + 1])}

render_frame(lines, scroll_offset, opt) ==
    LET base_y == TITLE_BAR_H + PAD_Y - IntPx(scroll_offset)
        drawn == {idx \in 0..(Len(lines) - 1) : ~skipped(base_y + idx * LINE_H)}
    IN  [n_lines |-> Len(lines),
         newest |-> IF Len(lines) > 0 THEN lines[Len(lines)] ELSE <<>>,
         scroll_offset |-> scroll_offset,
         base_y |-> base_y,
         cursor_parts |-> opt.cursor_parts,
         cursor_visible |-> opt.cursor_visible,
         extra_draw |-> opt.extra_draw,
         prompt_color_override |-> opt.prompt_color_override,
         signoff_color |-> opt.signoff_color,
         drawn |-> drawn,
         fills |-> fills(lines, drawn, opt),
         ops |-> draw_order(paint_lines(base_y, drawn),
                            paint_cursor(base_y, Len(lines), opt),
                            paint_extra(base_y, Len(lines), opt),
                            paint_title)]

\* y of content line idx (0-based) in frame f, and whether the loop draws it
LineY(f, idx) == f.base_y + idx * LINE_H
LineDrawn(f, idx) == ~(LineY(f, idx) < TITLE_BAR_H - LINE_H \/ LineY(f, idx) > H)

\* whether the cursor line / cursor block of frame f is drawn
CursorDrawn(f) ==
    /\ f.cursor_visible /\ f.cursor_parts.some
    /\ TITLE_BAR_H <= LineY(f, f.n_lines) /\ LineY(f, f.n_lines) <= H

\* ------------------------------------------------------------------------
\* State
\* ------------------------------------------------------------------------
VARIABLES
    variant,            \* which script runs: "v2", "v4", "v5", "v6"
    pc,                 \* "script" while beats run, then the export's position
    frames,             \* the frame list
    current_lines,      \* the line buffer
    scroll_y,           \* the viewport scroll offset (fixed point)
    keystroke_frames,   \* v4, v5
    enter_frames,       \* v5
    completion_frames,  \* v5
    tok_frames,         \* v6
    bell_frames,        \* v6
    total_samples,      \* len(audio) allocated by generate_audio
    renders,            \* instrumentation: calls of render_frame
    scrolls,            \* instrumentation: calls of smooth_scroll
    steplog,            \* instrumentation: per captured frame, the scroll step before it
    requested,          \* instrumentation: ticks requested by the beats so far
    beat,               \* instrumentation: the beat that ran last
    nbeats,             \* instrumentation: beats run
    sc_start, sc_current, sc_target, sc_ticks,  \* smooth_scroll iteration harness
    exportlog,          \* instrumentation: the export steps run so far, in order
    frame_dir,          \* the temporary directory: "none", "exists", "deleted"
    saved,              \* names of the frame files written, in order of writing
    mp4,                \* the file at mp4_path: "absent" or "present"
    au_total_frames,    \* generate_audio's argument total_frames
    audio,              \* the window of the mixed sample buffer
    ip,                 \* shipped timeline: the statement that runs next
    frame_count         \* shipped timeline: len(frames)

run_vars == <<variant, pc, frames, current_lines, scroll_y, keystroke_frames,
              enter_frames, completion_frames, tok_frames, bell_frames,
              total_samples, renders, scrolls, steplog, requested, beat, nbeats>>
sc_vars == <<sc_start, sc_current, sc_target, sc_ticks>>
ex_vars == <<exportlog, frame_dir, saved, mp4>>
au_vars == <<au_total_frames, audio>>
sh_vars == <<ip, frame_count>>
vars == <<run_vars, sc_vars, ex_vars, au_vars, sh_vars>>

\* what a beat's loop reads and writes
Globals == [frames |-> frames, lines |-> current_lines, scroll_y |-> scroll_y,
            keystroke_frames |-> keystroke_frames,
            completion_frames |-> completion_frames,
            renders |-> renders, scrolls |-> scrolls, steplog |-> steplog,
            raised |-> FALSE]

\* an exception nothing catches: the beat stops where it is and the script ends
Raised(st) == [st EXCEPT !.raised = TRUE]

\* scroll_y = smooth_scroll(scroll_y, tgt): the state after the step
Scrolled(st, sy) == [st EXCEPT !.scroll_y = sy, !.scrolls = @ + 1]

\* f = render_frame(...): counts the call
Rendered(st) == [st EXCEPT !.renders = @ + 1]

\* frames.append(f)
Captured(st, f, prev, tgt) ==
    [st EXCEPT !.frames = Append(@, f),
               !.steplog = Append(@, [prev |-> prev, tgt |-> tgt, cur |-> f.scroll_offset])]

\* the frame list has outgrown the model's cap: the beat is cut short, and
\* Commit refuses it
Over(st) == Len(st.frames) > MaxFrames \/ st.raised

NoBeat == [kind |-> "none", first |-> 0, n |-> 0, speed |-> 1, text |-> <<>>,
           delay |-> 0, p_start |-> 0, p_end |-> 0, lines0 |-> 0, scroll0 |-> 0,
           scrolls0 |-> 0, renders0 |-> 0, keys0 |-> 0, tones0 |-> 0, flash |-> FALSE]
Beat(kind) == [NoBeat EXCEPT !.kind = kind, !.first = Len(frames),
                             !.lines0 = Len(current_lines), !.scroll0 = scroll_y,
                             !.scrolls0 = scrolls, !.renders0 = renders,
                             !.keys0 = Len(keystroke_frames),
                             !.tones0 = Len(completion_frames)]

\* ------------------------------------------------------------------------
\* Beats (Timeline Builder).  v is the script variant, st the globals.
\* ------------------------------------------------------------------------
\* v4 clicks on every captured character, v5 on every 2nd character
Keystroke_every_captured(v, i) == v \in {"v4", "v5"}

Keystroke(v, i) == v = "v4" \/ (v = "v5" /\ i % 2 = 0)

RECURSIVE add_typing_from(_, _, _, _, _, _, _)
add_typing_from(v, st, text, color, prefix, speed, i) ==
    IF i >= Len(text) \/ Over(st) THEN st
    ELSE LET partial == SubSeq(text, 1, i + 1)
             cursor_parts == prefix \o << <<partial, color>> >>
             tgt == target_scroll(Append(st.lines, cursor_parts))
             sy == smooth_scroll(v, st.scroll_y, tgt * Unit)
             f == render_frame(st.lines, sy,
                               [Defaults EXCEPT !.cursor_parts = Some(cursor_parts)])
             st1 == Rendered(Scrolled(st, sy))
             st2 == IF speed = 0 THEN Raised(st1)
                    ELSE IF i % speed = 0
                    THEN Captured(
                           [st1 EXCEPT !.keystroke_frames =
                               IF Keystroke(v, i) THEN Append(@, Len(st1.frames)) ELSE @],
                           f, st.scroll_y, tgt)
                    ELSE st1
         IN  add_typing_from(v, st2, text, color, prefix, speed, i + 1)

add_typing_drop_last(v, st, text, color, prompt, speed, use_prompt) ==
    add_typing_from(v, st, SubSeq(text, 1, Len(text) - 1), color,
                    IF prompt /\ (v = "v2" \/ use_prompt) THEN PROMPT(v) ELSE <<>>, speed, 0)

add_typing_render_captured(v, st, text, color, prompt, speed, use_prompt) ==
    LET done == add_typing_from(v, st, text, color,
                    IF prompt /\ (v = "v2" \/ use_prompt) THEN PROMPT(v) ELSE <<>>, speed, 0)
    IN  [done EXCEPT !.renders = st.renders + (Len(done.frames) - Len(st.frames))]

add_typing_every_char(v, st, text, color, prompt, speed, use_prompt) ==
    add_typing_from(v, st, text, color,
                    IF prompt /\ (v = "v2" \/ use_prompt) THEN PROMPT(v) ELSE <<>>, 1, 0)

\* a typing beat that commits the typed line itself
add_typing_commit(v, st, text, color, prompt, speed, use_prompt) ==
    LET prefix == IF prompt /\ (v = "v2" \/ use_prompt) THEN PROMPT(v) ELSE <<>>
        done == add_typing_from(v, st, text, color, prefix, speed, 0)
    IN  [done EXCEPT !.lines = Append(@, prefix \o << <<text, color>> >>)]

add_typing(v, st, text, color, prompt, speed, use_prompt) ==
    LET prefix == IF prompt /\ (v = "v2" \/ use_prompt) THEN PROMPT(v) ELSE <<>>
    IN  add_typing_from(v, st, text, color, prefix, speed, 0)

\* add_pause and add_pause_no_prompt differ in the cursor they pass
RECURSIVE pause_from(_, _, _, _, _, _)
pause_from(v, st, n_frames, blink, cursor, i) ==
    IF i >= n_frames \/ Over(st) THEN st
    ELSE LET tgt == target_scroll(st.lines)
             sy == smooth_scroll(v, st.scroll_y, tgt * Unit)
             vis == IF blink THEN (i \div BLINK_INTERVAL) % 2 = 0 ELSE TRUE
             f == render_frame(st.lines, sy,
                               [Defaults EXCEPT !.cursor_parts = Some(cursor),
                                                !.cursor_visible = vis])
         IN  pause_from(v, Captured(Rendered(Scrolled(st, sy)), f, st.scroll_y, tgt),
                        n_frames, blink, cursor, i + 1)

add_pause(v, st, n_frames, blink) == pause_from(v, st, n_frames, blink, PROMPT(v), 0)

add_pause_no_prompt(v, st, n_frames, blink) == pause_from(v, st, n_frames, blink, <<>>, 0)

\* a run of n plain frames: render_frame(current_lines, scroll_y), no cursor
RECURSIVE plain_frames(_, _, _)
plain_frames(v, st, n) ==
    IF n <= 0 \/ Over(st) THEN st
    ELSE LET tgt == target_scroll(st.lines)
             sy == smooth_scroll(v, st.scroll_y, tgt * Unit)
             f == render_frame(st.lines, sy, Defaults)
         IN  plain_frames(v, Captured(Rendered(Scrolled(st, sy)), f, st.scroll_y, tgt), n - 1)

RECURSIVE add_flash_from(_, _, _, _)
add_flash_from(v, st, n_frames, i) ==
    IF i >= n_frames \/ Over(st) THEN st
    ELSE LET flash_color == lerp_color(WHITE, PRIMARY, i, Max(n_frames - 1, 1))
             tgt == target_scroll(st.lines)
             sy == smooth_scroll(v, st.scroll_y, tgt * Unit)
             f == render_frame(st.lines, sy,
                     [Defaults EXCEPT !.prompt_color_override =
                         IF v = "v4" THEN flash_color ELSE NoColor])
         IN  add_flash_from(v, Captured(Rendered(Scrolled(st, sy)), f, st.scroll_y, tgt),
                            n_frames, i + 1)

\* v4 and v5 only; v5 records the completion tone first
add_flash(v, st, n_frames) ==
    add_flash_from(v,
        [st EXCEPT !.completion_frames = IF v = "v5" THEN Append(@, Len(st.frames)) ELSE @],
        n_frames, 0)

RECURSIVE reveal_from(_, _, _, _, _)
reveal_from(v, st, output, delay, k) ==
    IF k > Len(output) \/ Over(st) THEN st
    ELSE reveal_from(v,
                     plain_frames(v, [st EXCEPT !.lines = Append(@, output[k])], delay),
                     output, delay, k + 1)

\* the whole block appended before the first frame
add_output_lines_block_first(v, st, output, delay, flash) ==
    LET st1 == plain_frames(v, [st EXCEPT !.lines = @ \o output], Len(output) * delay)
    IN  IF flash /\ v \in {"v4", "v5"} THEN add_flash(v, st1, FLASH_DEFAULT) ELSE st1

\* flash is the flash=True default of v4 and v5; v2 and v6 have no flash
add_output_lines(v, st, output, delay, flash) ==
    LET st1 == reveal_from(v, st, output, delay, 1)
    IN  IF flash /\ v \in {"v4", "v5"} THEN add_flash(v, st1, FLASH_DEFAULT) ELSE st1

\* progress_start / progress_end are given in hundredths; progress is the
\* exact fraction num/den of
\*   progress_start + (progress_end - progress_start) * (i / max(n_frames - 1, 1))
progress_over_n(n_frames, progress_start, progress_end, i) ==
    [num |-> progress_start * Max(n_frames, 1) + (progress_end - progress_start) * i,
     den |-> 100 * Max(n_frames, 1)]

\* the interpolation counted from 1: (i + 1) / max(n_frames - 1, 1)
progress_from_one(n_frames, progress_start, progress_end, i) ==
    [num |-> progress_start * Max(n_frames - 1, 1) + (progress_end - progress_start) * (i + 1),
     den |-> 100 * Max(n_frames - 1, 1)]

\* the division without its guard: i / (n_frames - 1)
progress_unguarded(n_frames, progress_start, progress_end, i) ==
    [num |-> progress_start * (n_frames - 1) + (progress_end - progress_start) * i,
     den |-> 100 * (n_frames - 1)]

progress(n_frames, progress_start, progress_end, i) ==
    [num |-> progress_start * Max(n_frames - 1, 1) + (progress_end - progress_start) * i,
     den |-> 100 * Max(n_frames - 1, 1)]

\* the target the spinner chases: smooth_scroll(scroll_y, tgt + LINE_H * 3)
spinner_target_plain(lines) == target_scroll(lines)

spinner_target_4(lines) == target_scroll(lines) + LINE_H * 4

spinner_target(lines) == target_scroll(lines) + LINE_H * 3

RECURSIVE spinner_from(_, _, _, _, _, _)
spinner_from(v, st, n_frames, progress_start, progress_end, i) ==
    IF i >= n_frames \/ Over(st) THEN st
    \* a zero divisor raises ZeroDivisionError
    ELSE IF progress(n_frames, progress_start, progress_end, i).den = 0 THEN Raised(st)
    ELSE LET p == progress(n_frames, progress_start, progress_end, i)
             cycle_color == IF v = "v2" THEN PRIMARY
                            ELSE CYCLE_COLORS[(i % Len(CYCLE_COLORS)) + 1]
             pct == Trunc(p.num * 100, p.den)
             tgt == spinner_target(st.lines)
             sy == smooth_scroll(v, st.scroll_y, tgt * Unit)
             fill_w == Trunc(BAR_W * p.num, p.den)
             draw_extra == [on |-> TRUE, p_num |-> p.num, p_den |-> p.den,
                            fill_w |-> fill_w,
                            drawn_w |-> IF fill_w > 10 THEN fill_w ELSE 0,
                            pc |-> pct,
                            s |-> IF v = "v2" THEN i % SPINNER_LEN ELSE 0,
                            cc |-> cycle_color]
             f == render_frame(st.lines, sy,
                     [Defaults EXCEPT !.extra_draw = draw_extra,
                                      !.prompt_color_override =
                                          IF v = "v4" THEN cycle_color ELSE NoColor])
         IN  spinner_from(v, Captured(Rendered(Scrolled(st, sy)), f, st.scroll_y, tgt),
                          n_frames, progress_start, progress_end, i + 1)

add_spinner_progress(v, st, n_frames, progress_start, progress_end) ==
    spinner_from(v, st, n_frames, progress_start, progress_end, 0)

IsSignoff(parts) == Len(parts) = 1 /\ parts[1][1] = PROMPT_ICON

\* v4 rewrites the standalone signoff line and overrides the prompt colour;
\* v5 and v6 pass signoff_color and leave the buffer alone
RECURSIVE breathing_from(_, _, _, _)
breathing_from(v, st, n_frames, i) ==
    IF i >= n_frames \/ Over(st) THEN st
    ELSE LET tgt == target_scroll(st.lines)
             sy == smooth_scroll(v, st.scroll_y, tgt * Unit)
             bc == breath_color(i)
             n == Len(st.lines)
             lines1 == IF v = "v4" /\ n > 0 /\ IsSignoff(st.lines[n])
                       THEN [st.lines EXCEPT ![n] = << <<PROMPT_ICON, bc>> >>]
                       ELSE st.lines
             f == render_frame(lines1, sy,
                     IF v = "v4" THEN [Defaults EXCEPT !.prompt_color_override = bc]
                                 ELSE [Defaults EXCEPT !.signoff_color = bc])
             st1 == Rendered(Scrolled([st EXCEPT !.lines = lines1], sy))
         IN  breathing_from(v, Captured(st1, f, st.scroll_y, tgt), n_frames, i + 1)

add_breathing_pause(v, st, n_frames) == breathing_from(v, st, n_frames, 0)

\* the script's closing wink: for cycle in range(3), show 5 frames, hide 4,
\* then leave the wink on
WINK_CYCLES == 3
WINK_ON == 5
WINK_OFF == 4
WinkText == <<"h", "i">>
wink_line_with(v) ==
    (IF v \in {"v2", "v4"} THEN PROMPT(v) ELSE <<>>)
        \o << <<WinkText \o <<" ">>, PRIMARY>>, <<(<<";", ")">>), PRIMARY>> >>
wink_line_without(v) ==
    (IF v \in {"v2", "v4"} THEN PROMPT(v) ELSE <<>>) \o << <<WinkText, PRIMARY>> >>

SetLast_first(st, line) == [st EXCEPT !.lines = [@ EXCEPT ![1] = line]]

SetLast(st, line) == [st EXCEPT !.lines = [@ EXCEPT ![Len(@)] = line]]

RECURSIVE wink_from(_, _, _)
wink_from(v, st, cycle) ==
    IF cycle >= WINK_CYCLES THEN SetLast(st, wink_line_with(v))
    ELSE LET shown == plain_frames(v, SetLast(st, wink_line_with(v)), WINK_ON)
             hidden == plain_frames(v, SetLast(shown, wink_line_without(v)), WINK_OFF)
         IN  wink_from(v, hidden, cycle + 1)

\* ------------------------------------------------------------------------
\* Audio: the sample buffer generate_audio allocates
\* ------------------------------------------------------------------------
\* total_samples = int(total_frames / FPS * SAMPLE_RATE)
audio_length_ceil(total_frames) == (total_frames * SAMPLE_RATE + FPS - 1) \div FPS

audio_length(total_frames) == Trunc(total_frames * SAMPLE_RATE, FPS)

\* ------------------------------------------------------------------------
\* Audio mixing: generate_audio
\*
\* Sample values are Python floats; they are modelled in fixed point, an
\* integer count of 1/SampleUnit.  The buffer has tens of thousands of samples, so
\* it is kept at the indices of a window: for every event the first sample,
\* the loudest sample, the last sample and the index after it, and the ends
\* of the buffer.  A window cell holds the value mixed so far and the list
\* of the waveform samples added to it; a cell at or past the length
\* stands for an index the list does not have.
\* ------------------------------------------------------------------------
SampleUnit == 10000
PCM_MAX == 32767

\* the waveforms in the order generate_audio mixes their event lists
AudioKinds(v) ==
    CASE v = "v4" -> <<"click">>
      [] v = "v5" -> <<"click", "enter", "tone">>
      [] v = "v6" -> <<"tok", "bell">>
      [] OTHER -> <<>>

\* CLICK_DURATION, ENTER_DURATION, TONE_DURATION, TOK_DURATION, BELL_DURATION
\* in milliseconds
DurationMs(v, kind) ==
    CASE kind = "click" -> (IF v = "v4" THEN 18 ELSE 22)
      [] kind = "enter" -> 35
      [] kind = "tone" -> 180
      [] kind = "tok" -> 80
      [] kind = "bell" -> 2500

\* n = int(SAMPLE_RATE * DURATION)
n_samples(v, kind) == Trunc(SAMPLE_RATE * DurationMs(v, kind), 1000)

\* The values of the generated waveforms at the sample numbers the window
\* reads, in 1/SampleUnit, rounded to nearest.
\* v4 generate_click: 18 ms click at 1800 Hz (793 samples, largest at 31)
generate_click ==
    (0 :> -400) @@ (31 :> 1596) @@ (792 :> 37)

\* v5 generate_click_samples: 22 ms click at 1200 Hz (970 samples, largest at 9)
generate_click_samples ==
    (0 :> -150) @@ (9 :> 521) @@ (19 :> 24) @@ (879 :> -12) @@ (969 :> 14)

\* v5 generate_enter_samples: 35 ms thud (1543 samples, largest at 19)
generate_enter_samples ==
    (0 :> 0) @@ (9 :> 607) @@ (19 :> 891) @@ (879 :> -45) @@ (969 :> 152) @@
    (970 :> 155) @@ (1542 :> -7)

\* v5 generate_tone_samples: 180 ms rising chime (7938 samples, largest at 879)
generate_tone_samples ==
    (0 :> 0) @@ (9 :> 14) @@ (19 :> 23) @@ (879 :> 1496) @@ (969 :> 1179) @@
    (970 :> 1301) @@ (1542 :> 485) @@ (1543 :> 689) @@ (1836 :> 412) @@
    (1837 :> 553) @@ (1838 :> 702) @@ (1846 :> 1171) @@ (1856 :> -580) @@
    (2716 :> -657) @@ (2806 :> 576) @@ (2807 :> 495) @@ (3379 :> -529) @@
    (3380 :> -394) @@ (3674 :> -757) @@ (3675 :> -768) @@ (6100 :> 166) @@
    (6101 :> 106) @@ (7937 :> 0)

\* v6 generate_tok_samples: 80 ms bamboo knock (3528 samples, largest at 74)
generate_tok_samples ==
    (0 :> -300) @@ (74 :> -1068) @@ (406 :> -264) @@ (1690 :> 68) @@
    (1691 :> 66) @@ (1836 :> -52) @@ (1837 :> -53) @@ (1838 :> -55) @@
    (1911 :> 44) @@ (2243 :> 28) @@ (3527 :> 0)

\* v6 generate_bell_samples: 2.5 s bell (110250 samples, largest at 406)
generate_bell_samples ==
    (0 :> 0) @@ (74 :> -169) @@ (406 :> -816) @@ (1690 :> 663) @@
    (1691 :> 627) @@ (1836 :> -183) @@ (1837 :> -62) @@ (1838 :> 62) @@
    (1911 :> -768) @@ (2243 :> -776) @@ (3527 :> 650) @@ (3528 :> 619) @@
    (3674 :> -113) @@ (3675 :> 0) @@ (5364 :> 634) @@ (5365 :> 607) @@
    (9187 :> -44) @@ (9188 :> 44) @@ (11024 :> -81) @@ (11025 :> 0) @@
    (108412 :> -2) @@ (108413 :> 2) @@ (110249 :> -3)

\* the offset of the loudest sample of a waveform
Loudest(v, kind) ==
    CASE kind = "click" -> (IF v = "v4" THEN 31 ELSE 9)
      [] kind = "enter" -> 19
      [] kind = "tone" -> 879
      [] kind = "tok" -> 74
      [] kind = "bell" -> 406

\* val of enumerate(<waveform>) at i
wave(v, kind, i) ==
    CASE kind = "click" -> (IF v = "v4" THEN generate_click[i] ELSE generate_click_samples[i])
      [] kind = "enter" -> generate_enter_samples[i]
      [] kind = "tone" -> generate_tone_samples[i]
      [] kind = "tok" -> generate_tok_samples[i]
      [] kind = "bell" -> generate_bell_samples[i]

\* pos = int((frame_num / FPS) * SAMPLE_RATE)
sample_pos_next(frame_num) == Trunc((frame_num + 1) * SAMPLE_RATE, FPS)

sample_pos(frame_num) == Trunc(frame_num * SAMPLE_RATE, FPS)

\* the indices the buffer is kept at
Window(v, length, lists) ==
    {idx \in {0, length - 1, length} \cup
             UNION {UNION {{sample_pos(lists[AudioKinds(v)[k]][j]) + o :
                              o \in {0, Loudest(v, AudioKinds(v)[k]),
                                     n_samples(v, AudioKinds(v)[k]) - 1,
                                     n_samples(v, AudioKinds(v)[k])}} :
                           j \in 1..Len(lists[AudioKinds(v)[k]])} :
                    k \in 1..Len(AudioKinds(v))} : idx >= 0}

\* for i, val in enumerate(<waveform>):
\*     idx = pos + i
\*     if idx < total_samples: audio[idx] += val
\* for event j of the list of kind, recorded at frame_num
mix_event_unguarded(v, au, kind, j, frame_num, length) ==
    LET pos == sample_pos(frame_num)
    IN  [idx \in DOMAIN au |->
           IF idx - pos \in 0..(n_samples(v, kind) - 1)
           THEN [raw |-> au[idx].raw + wave(v, kind, idx - pos),
                 parts |-> Append(au[idx].parts, <<kind, j, idx - pos>>)]
           ELSE au[idx]]

mix_event_overwrite(v, au, kind, j, frame_num, length) ==
    LET pos == sample_pos(frame_num)
    IN  [idx \in DOMAIN au |->
           IF idx - pos \in 0..(n_samples(v, kind) - 1) /\ idx < length
           THEN [raw |-> wave(v, kind, idx - pos),
                 parts |-> Append(au[idx].parts, <<kind, j, idx - pos>>)]
           ELSE au[idx]]

mix_event_skip_first(v, au, kind, j, frame_num, length) ==
    LET pos == sample_pos(frame_num)
    IN  [idx \in DOMAIN au |->
           IF idx - pos \in 1..(n_samples(v, kind) - 1) /\ idx < length
           THEN [raw |-> au[idx].raw + wave(v, kind, idx - pos),
                 parts |-> Append(au[idx].parts, <<kind, j, idx - pos>>)]
           ELSE au[idx]]

mix_event(v, au, kind, j, frame_num, length) ==
    LET pos == sample_pos(frame_num)
    IN  [idx \in DOMAIN au |->
           IF idx - pos \in 0..(n_samples(v, kind) - 1) /\ idx < length
           THEN [raw |-> au[idx].raw + wave(v, kind, idx - pos),
                 parts |-> Append(au[idx].parts, <<kind, j, idx - pos>>)]
           ELSE au[idx]]

\* for frame_num in <event list>: ...
RECURSIVE mix_list(_, _, _, _, _, _)
mix_list(v, au, kind, list, j, length) ==
    IF j > Len(list) THEN au
    ELSE mix_list(v, mix_event(v, au, kind, j, list[j], length),
                  kind, list, j + 1, length)

\* the loops over the event lists, one after the other
RECURSIVE mix_kinds(_, _, _, _, _)
mix_kinds(v, au, lists, k, length) ==
    IF k > Len(AudioKinds(v)) THEN au
    ELSE mix_kinds(v, mix_list(v, au, AudioKinds(v)[k], lists[AudioKinds(v)[k]],
                               1, length),
                   lists, k + 1, length)

\* clamped = max(-1.0, min(1.0, sample))
clamp_none(sample) == sample

clamp(sample) == Max(-SampleUnit, Min(SampleUnit, sample))

\* int(clamped * 32767), the value struct.pack('<h', ...) is given
quantize(clamped) == Trunc(clamped * PCM_MAX, SampleUnit)

\* generate_audio(total_frames, ...): the buffer length, and the window of
\* the buffer with the sample written to the file for each cell
generate_audio(v, total_frames, lists) ==
    LET length == audio_length(total_frames)
        zero == [idx \in Window(v, length, lists) |-> [raw |-> 0, parts |-> <<>>]]
        mixed == mix_kinds(v, zero, lists, 1, length)
    IN  [length |-> length,
         audio |-> [idx \in DOMAIN mixed |->
                      [raw |-> mixed[idx].raw,
                       parts |-> mixed[idx].parts,
                       pcm |-> quantize(clamp(mixed[idx].raw))]]]

\* ------------------------------------------------------------------------
\* Inputs the beats are called with
\* ------------------------------------------------------------------------
Txt4 == <<"a", "b", "c", "d">>
Txt5 == <<"a", "b", "c", "d", "e">>
Txt10 == <<"0", "1", "2", "3", "4", "5", "6", "7", "8", "9">>

\* <<text, color, prompt, speed, use_prompt>>
TypingArgs == { << <<>>, COMMENT_COLOR, TRUE, 2, TRUE >>,
                << Txt10, PRIMARY, TRUE, 1, TRUE >>,
                << Txt5, COMMENT_COLOR, TRUE, 2, FALSE >>,
                << Txt4, DIM, FALSE, 2, TRUE >> }

\* <<n_frames, blink>>
PauseArgs == { <<0, TRUE>>, <<13, TRUE>>, <<40, FALSE>> }
PauseNoPromptArgs == { <<1, TRUE>> }

OutLine(k) == << <<(<<"o", ToString(k)>>), DIM>> >>
Block(n) == [k \in 1..n |-> OutLine(k)]
\* a command line with its prompt, then the standalone signoff line
SignoffBlock == << << <<PROMPT_ICON \o <<" ">>, PROMPT_COLOR>>, <<Txt4, PRIMARY>> >>,
                   << <<PROMPT_ICON, PRIMARY>> >> >>

\* <<output, delay, flash>>
OutputArgs == { << <<>>, 3, TRUE >>, << Block(2), 3, TRUE >>, << Block(24), 1, FALSE >>,
                << Block(24), 0, FALSE >>, << SignoffBlock, 0, FALSE >>,
                << Block(18), 0, FALSE >> }

\* <<n_frames, progress_start, progress_end>>, progress in hundredths
SpinnerArgs == { <<0, 0, 100>>, <<1, 0, 100>>, <<30, 0, 100>>, <<18, 65, 100>>,
                 <<3, 100, 0>> }

FlashArgs == {1, 6}
BreathingArgs == {3}

\* lines the script appends itself
ScriptLines(v) ==
    { <<>>, PROMPT(v) \o << <<Txt4, PRIMARY>> >> }
        \cup (IF v = "v2" THEN {} ELSE { << <<PROMPT_ICON, PRIMARY>> >> })

\* ------------------------------------------------------------------------
\* Actions: one per beat call or script statement
\* ------------------------------------------------------------------------
Init ==
    /\ variant \in Variants
    /\ pc = "script"
    /\ frames = <<>>
    /\ current_lines = <<>>
    /\ scroll_y = 0
    /\ keystroke_frames = <<>>
    /\ enter_frames = <<>>
    /\ completion_frames = <<>>
    /\ tok_frames = <<>>
    /\ bell_frames = <<>>
    /\ total_samples = 0
    /\ renders = 0
    /\ scrolls = 0
    /\ steplog = <<>>
    /\ requested = 0
    /\ beat = NoBeat
    /\ nbeats = 0
    /\ sc_start = 0 /\ sc_current = 0 /\ sc_target = 0 /\ sc_ticks = 0
    \* a first run: no earlier output at mp4_path
    /\ exportlog = <<>> /\ frame_dir = "none" /\ saved = <<>> /\ mp4 = "absent"
    /\ ip = 0 /\ frame_count = 0
    /\ au_total_frames = 0 /\ audio = <<>>

CanRun == pc = "script" /\ nbeats < MaxBeats

\* the globals after a beat; req is the number of ticks the beat asked for
Commit(st, b, req) ==
    /\ Len(st.frames) <= MaxFrames
    /\ frames' = st.frames
    /\ current_lines' = st.lines
    /\ scroll_y' = st.scroll_y
    /\ keystroke_frames' = st.keystroke_frames
    /\ completion_frames' = st.completion_frames
    /\ renders' = st.renders
    /\ scrolls' = st.scrolls
    /\ steplog' = st.steplog
    /\ requested' = requested + req
    /\ beat' = b
    /\ nbeats' = nbeats + 1
    /\ pc' = IF st.raised THEN "crashed" ELSE pc
    /\ UNCHANGED <<variant, enter_frames, tok_frames, bell_frames, total_samples,
                   sc_vars, ex_vars, au_vars, sh_vars>>

AddTyping ==
    /\ CanRun
    /\ \E a \in TypingArgs :
         Commit(add_typing(variant, Globals, a[1], a[2], a[3], a[4], a[5]),
                [Beat("typing") EXCEPT !.text = a[1], !.speed = a[4], !.n = Len(a[1])],
                Cardinality({i \in 0..(Len(a[1]) - 1) : i % a[4] = 0}))

\* current_lines.append(line)
ScriptAppend ==
    /\ CanRun
    /\ \E line \in ScriptLines(variant) :
         Commit([Globals EXCEPT !.lines = Append(@, line)], Beat("append"), 0)

AddPause ==
    /\ CanRun
    /\ \E a \in PauseArgs :
         Commit(add_pause(variant, Globals, a[1], a[2]),
                [Beat("pause") EXCEPT !.n = a[1]], a[1])

AddPauseNoPrompt ==
    /\ CanRun /\ variant # "v2"
    /\ \E a \in PauseNoPromptArgs :
         Commit(add_pause_no_prompt(variant, Globals, a[1], a[2]),
                [Beat("pause_no_prompt") EXCEPT !.n = a[1]], a[1])

AddOutputLines ==
    /\ CanRun
    /\ \E a \in OutputArgs :
         LET flash == a[3] /\ variant \in {"v4", "v5"}
         IN  Commit(add_output_lines(variant, Globals, a[1], a[2], a[3]),
                    [Beat("output") EXCEPT !.n = Len(a[1]), !.delay = a[2],
                                           !.text = a[1], !.flash = flash],
                    Len(a[1]) * a[2] + (IF flash THEN FLASH_DEFAULT ELSE 0))

AddSpinnerProgress ==
    /\ CanRun
    /\ \E a \in SpinnerArgs :
         Commit(add_spinner_progress(variant, Globals, a[1], a[2], a[3]),
                [Beat("spinner") EXCEPT !.n = a[1], !.p_start = a[2], !.p_end = a[3]],
                a[1])

AddFlash ==
    /\ CanRun /\ variant \in {"v4", "v5"}
    /\ \E n \in FlashArgs :
         Commit(add_flash(variant, Globals, n), [Beat("flash") EXCEPT !.n = n], n)

AddBreathingPause ==
    /\ CanRun /\ variant # "v2"
    /\ \E n \in BreathingArgs :
         Commit(add_breathing_pause(variant, Globals, n),
                [Beat("breathing") EXCEPT !.n = n], n)

\* the wink loop of the script; current_lines[-1] needs a line to replace
Wink ==
    /\ CanRun /\ Len(current_lines) > 0
    /\ Commit(wink_from(variant, Globals, 0),
              [Beat("wink") EXCEPT !.n = WINK_CYCLES], WINK_CYCLES * (WINK_ON + WINK_OFF))

\* add_enter (v5), add_tok and add_bell (v6): record len(frames), nothing else
Marked(b) ==
    /\ beat' = b
    /\ nbeats' = nbeats + 1
    /\ UNCHANGED <<variant, pc, frames, current_lines, scroll_y, keystroke_frames,
                   completion_frames, total_samples, renders, scrolls, steplog,
                   requested, sc_vars, ex_vars, au_vars, sh_vars>>

AddEnter ==
    /\ CanRun /\ variant = "v5"
    /\ enter_frames' = Append(enter_frames, Len(frames))
    /\ UNCHANGED <<tok_frames, bell_frames>>
    /\ Marked(Beat("enter"))

AddTok ==
    /\ CanRun /\ variant = "v6"
    /\ tok_frames' = Append(tok_frames, Len(frames))
    /\ UNCHANGED <<enter_frames, bell_frames>>
    /\ Marked(Beat("tok"))

AddBell ==
    /\ CanRun /\ variant = "v6"
    /\ bell_frames' = Append(bell_frames, Len(frames))
    /\ UNCHANGED <<enter_frames, tok_frames>>
    /\ Marked(Beat("bell"))

\* ------------------------------------------------------------------------
\* Export: the statements after the last beat, one action per statement
\* that touches the file system or runs the encoder
\* ------------------------------------------------------------------------
\* f"frame_{i:05d}.png": the decimal digits of i, zero-padded to five
FrameName(i) ==
    <<(i \div 10000) % 10, (i \div 1000) % 10, (i \div 100) % 10, (i \div 10) % 10, i % 10>>

\* what subprocess.run(["ffmpeg", ...], capture_output=True) can do: the
\* encoder exits with 0, exits with another status (not inspected), or the
\* executable cannot be started and subprocess.run raises
EncoderOutcomes == {"ok", "nonzero", "nostart"}

ExportKeeps ==
    UNCHANGED <<variant, frames, current_lines, scroll_y, keystroke_frames,
                enter_frames, completion_frames, tok_frames, bell_frames,
                renders, scrolls, steplog, requested, beat, nbeats, sc_vars, au_vars,
                sh_vars>>

\* frame_dir = tempfile.mkdtemp(...); for i, frame in enumerate(frames): frame.save(...)
SaveFrames ==
    /\ pc = "script"
    /\ pc' = "saved"
    /\ frame_dir' = "exists"
    /\ saved' = [k \in 1..Len(frames) |-> FrameName(k - 1)]
    /\ exportlog' = Append(exportlog, "frames")
    /\ UNCHANGED <<total_samples, mp4>>
    /\ ExportKeeps

\* generate_audio(len(frames), ..., wav_path): allocates the sample buffer
WriteWaveform ==
    /\ pc = "saved" /\ variant # "v2"
    /\ pc' = "wav_written"
    /\ total_samples' = audio_length(Len(frames))
    /\ exportlog' = Append(exportlog, "wav")
    /\ UNCHANGED <<frame_dir, saved, mp4>>
    /\ ExportKeeps

\* one subprocess.run of the encoder, from position at to position to;
\* final says that the pass writes to mp4_path.  An encoder that exits with
\* 0 has written its output file; one that fails may leave a partial file
\* or none at all.
RunEncoder(at, to, step, final) ==
    /\ pc = at
    /\ \E outcome \in EncoderOutcomes, leaves_file \in BOOLEAN :
         IF outcome = "nostart"
         THEN pc' = "crashed" /\ UNCHANGED <<exportlog, mp4>>
         ELSE /\ pc' = to
              /\ exportlog' = Append(exportlog, step)
              /\ mp4' = IF final /\ (outcome = "ok" \/ leaves_file) THEN "present" ELSE mp4
    /\ UNCHANGED <<frame_dir, saved, total_samples>>
    /\ ExportKeeps

\* v2: the only encoder pass
Encode == variant = "v2" /\ RunEncoder("saved", "encoded", "encode", TRUE)

\* v4, v5, v6: the silent video, then the merge with the waveform
EncodeSilent == variant # "v2" /\ RunEncoder("wav_written", "silent", "silent", FALSE)

Mux == variant # "v2" /\ RunEncoder("silent", "encoded", "mux", TRUE)

\* shutil.rmtree(frame_dir)
Cleanup_before_encode ==
    /\ pc = "saved"
    /\ frame_dir = "exists"
    /\ frame_dir' = "deleted"
    /\ exportlog' = Append(exportlog, "rmtree")
    /\ UNCHANGED <<pc, saved, total_samples, mp4>>
    /\ ExportKeeps

Cleanup ==
    /\ pc = "encoded"
    /\ pc' = "cleaned"
    /\ frame_dir' = "deleted"
    /\ exportlog' = Append(exportlog, "rmtree")
    /\ UNCHANGED <<saved, total_samples, mp4>>
    /\ ExportKeeps

\* the closing print statements; the last one calls os.path.getsize(mp4_path),
\* which raises when there is no file at mp4_path
Report ==
    /\ pc = "cleaned"
    /\ pc' = IF mp4 = "present" THEN "done" ELSE "crashed"
    /\ UNCHANGED <<exportlog, frame_dir, saved, total_samples, mp4>>
    /\ ExportKeeps

Export ==
    \/ SaveFrames
    \/ WriteWaveform
    \/ Encode
    \/ EncodeSilent
    \/ Mux
    \/ Cleanup
    \/ Report

Next ==
    \/ AddTyping
    \/ ScriptAppend
    \/ AddPause
    \/ AddPauseNoPrompt
    \/ AddOutputLines
    \/ AddSpinnerProgress
    \/ AddFlash
    \/ AddBreathingPause
    \/ Wink
    \/ AddEnter
    \/ AddTok
    \/ AddBell
    \/ Export

Spec == Init /\ [][Next]_vars

\* ------------------------------------------------------------------------
\* smooth_scroll iterated toward a fixed target, from any starting offset
\* ------------------------------------------------------------------------
\* offsets in fixed point: whole, fractional and negative starts
ScrollStarts == {0, Unit \div 2, 92 * Unit, 275 * Unit + Unit \div 4, 2512 * Unit, -300 * Unit}
ScrollTargets == {0, 28 * Unit, 276 * Unit, 488 * Unit, 2696 * Unit}

InitScroll ==
    /\ variant \in Variants
    /\ pc = "script"
    /\ frames = <<>>
    /\ current_lines = <<>>
    /\ scroll_y = 0
    /\ keystroke_frames = <<>>
    /\ enter_frames = <<>>
    /\ completion_frames = <<>>
    /\ tok_frames = <<>>
    /\ bell_frames = <<>>
    /\ total_samples = 0
    /\ renders = 0
    /\ scrolls = 0
    /\ steplog = <<>>
    /\ requested = 0
    /\ beat = NoBeat
    /\ nbeats = 0
    /\ sc_start \in ScrollStarts
    /\ sc_target \in ScrollTargets
    /\ sc_current = sc_start
    /\ sc_ticks = 0
    /\ exportlog = <<>> /\ frame_dir = "none" /\ saved = <<>> /\ mp4 = "absent"
    /\ ip = 0 /\ frame_count = 0
    /\ au_total_frames = 0 /\ audio = <<>>

\* scroll_y = smooth_scroll(scroll_y, tgt) with tgt fixed
ScrollStep ==
    /\ sc_ticks < MaxTicks
    /\ sc_current' = smooth_scroll(variant, sc_current, sc_target)
    /\ sc_ticks' = sc_ticks + 1
    /\ UNCHANGED <<sc_start, sc_target, run_vars, ex_vars, au_vars, sh_vars>>

NextScroll == ScrollStep

SpecScroll == InitScroll /\ [][NextScroll]_vars

\* ------------------------------------------------------------------------
\* generate_audio on its own: any frame count, any recorded event lists
\* ------------------------------------------------------------------------
\* the event lists generate_audio reads, by waveform
event_lists == [click |-> keystroke_frames, enter |-> enter_frames,
                tone |-> completion_frames, tok |-> tok_frames, bell |-> bell_frames]

\* Event lists as the beats record them: frame indices in recording order,
\* so never decreasing, several events at one frame included.
Rep(f, k) == [i \in 1..k |-> f]
EventLists == {<<>>, <<0>>, <<1>>, <<0, 0>>, <<0, 1>>, Rep(0, MaxOverlap), Rep(1, MaxOverlap)}
AudioTotals == {0, 1, 2, 6, 62}

\* an event is recorded as len(frames), which never exceeds the final count
Recordable(list, total_frames) == \A j \in 1..Len(list) : list[j] <= total_frames

InitAudio ==
    /\ variant \in {"v4", "v5", "v6"}
    /\ pc = "audio"
    /\ au_total_frames \in AudioTotals
    /\ keystroke_frames \in (IF variant \in {"v4", "v5"} THEN EventLists ELSE {<<>>})
    /\ enter_frames \in (IF variant = "v5" THEN EventLists ELSE {<<>>})
    /\ completion_frames \in (IF variant = "v5" THEN EventLists ELSE {<<>>})
    /\ tok_frames \in (IF variant = "v6" THEN EventLists ELSE {<<>>})
    /\ bell_frames \in (IF variant = "v6" THEN EventLists ELSE {<<>>})
    /\ \A kind \in DOMAIN event_lists : Recordable(event_lists[kind], au_total_frames)
    /\ frames = <<>>
    /\ current_lines = <<>>
    /\ scroll_y = 0
    /\ total_samples = 0
    /\ renders = 0
    /\ scrolls = 0
    /\ steplog = <<>>
    /\ requested = 0
    /\ beat = NoBeat
    /\ nbeats = 0
    /\ sc_start = 0 /\ sc_current = 0 /\ sc_target = 0 /\ sc_ticks = 0
    /\ exportlog = <<>> /\ frame_dir = "none" /\ saved = <<>> /\ mp4 = "absent"
    /\ ip = 0 /\ frame_count = 0
    /\ audio = <<>>

\* generate_audio(total_frames, ...) up to the samples handed to the file
GenerateAudio ==
    /\ pc = "audio"
    /\ pc' = "mixed"
    /\ LET out == generate_audio(variant, au_total_frames, event_lists)
       IN  /\ total_samples' = out.length
           /\ audio' = out.audio
    /\ UNCHANGED <<variant, frames, current_lines, scroll_y, keystroke_frames,
                   enter_frames, completion_frames, tok_frames, bell_frames,
                   renders, scrolls, steplog, requested, beat, nbeats,
                   sc_vars, ex_vars, au_total_frames, sh_vars>>

NextAudio == GenerateAudio

SpecAudio == InitAudio /\ [][NextAudio]_vars

\* ------------------------------------------------------------------------
\* The shipped timelines of the audio variants: the statements of each
\* script from its first beat to its last, in order, with the arguments that
\* decide how many frames are captured and which events are recorded (text
\* length and speed, n_frames, number of output lines, delay and flash).
\* The frame list is kept as its length.
\* ------------------------------------------------------------------------
St(op, n, speed, delay, flash) ==
    [op |-> op, n |-> n, speed |-> speed, delay |-> delay, flash |-> flash]

Script_v4 ==
    << St("pause_no_prompt", 12, 0, 0, FALSE),
       St("typing", 48, 2, 0, FALSE),
       St("buffer", 0, 0, 0, FALSE),
       St("pause_no_prompt", 24, 0, 0, FALSE),
       St("typing", 46, 2, 0, FALSE),
       St("buffer", 0, 0, 0, FALSE),
       St("pause_no_prompt", 24, 0, 0, FALSE),
       St("buffer", 0, 0, 0, FALSE),
       St("typing", 46, 1, 0, FALSE),
       St("buffer", 0, 0, 0, FALSE),
       St("pause", 8, 0, 0, FALSE),
       St("spinner", 30, 0, 0, FALSE),
       St("spinner", 18, 0, 0, FALSE),
       St("output", 9, 0, 4, TRUE),
       St("pause", 48, 0, 0, FALSE),
       St("buffer", 0, 0, 0, FALSE),
       St("typing", 35, 1, 0, FALSE),
       St("buffer", 0, 0, 0, FALSE),
       St("pause", 8, 0, 0, FALSE),
       St("spinner", 24, 0, 0, FALSE),
       St("spinner", 18, 0, 0, FALSE),
       St("output", 8, 0, 4, TRUE),
       St("pause", 48, 0, 0, FALSE),
       St("buffer", 0, 0, 0, FALSE),
       St("typing", 43, 1, 0, FALSE),
       St("buffer", 0, 0, 0, FALSE),
       St("pause", 8, 0, 0, FALSE),
       St("spinner", 30, 0, 0, FALSE),
       St("spinner", 24, 0, 0, FALSE),
       St("spinner", 18, 0, 0, FALSE),
       St("output", 8, 0, 8, TRUE),
       St("pause", 48, 0, 0, FALSE),
       St("output", 9, 0, 8, TRUE),
       St("pause", 72, 0, 0, FALSE),
       St("buffer", 0, 0, 0, FALSE),
       St("buffer", 0, 0, 0, FALSE),
       St("typing", 55, 1, 0, FALSE),
       St("buffer", 0, 0, 0, FALSE),
       St("pause", 24, 0, 0, FALSE),
       St("typing", 34, 1, 0, FALSE),
       St("buffer", 0, 0, 0, FALSE),
       St("pause", 24, 0, 0, FALSE),
       St("wink", 0, 0, 0, FALSE),
       St("buffer", 0, 0, 0, FALSE),
       St("pause", 24, 0, 0, FALSE),
       St("buffer", 0, 0, 0, FALSE),
       St("buffer", 0, 0, 0, FALSE),
       St("breathing", 96, 0, 0, FALSE) >>

Script_v5 ==
    << St("pause_no_prompt", 12, 0, 0, FALSE),
       St("typing", 48, 2, 0, FALSE),
       St("buffer", 0, 0, 0, FALSE),
       St("enter", 0, 0, 0, FALSE),
       St("pause_no_prompt", 24, 0, 0, FALSE),
       St("typing", 46, 2, 0, FALSE),
       St("buffer", 0, 0, 0, FALSE),
       St("enter", 0, 0, 0, FALSE),
       St("pause_no_prompt", 24, 0, 0, FALSE),
       St("buffer", 0, 0, 0, FALSE),
       St("typing", 46, 1, 0, FALSE),
       St("buffer", 0, 0, 0, FALSE),
       St("enter", 0, 0, 0, FALSE),
       St("pause", 8, 0, 0, FALSE),
       St("spinner", 30, 0, 0, FALSE),
       St("spinner", 18, 0, 0, FALSE),
       St("output", 9, 0, 4, TRUE),
       St("pause", 48, 0, 0, FALSE),
       St("buffer", 0, 0, 0, FALSE),
       St("typing", 35, 1, 0, FALSE),
       St("buffer", 0, 0, 0, FALSE),
       St("enter", 0, 0, 0, FALSE),
       St("pause", 8, 0, 0, FALSE),
       St("spinner", 24, 0, 0, FALSE),
       St("spinner", 18, 0, 0, FALSE),
       St("output", 8, 0, 4, TRUE),
       St("pause", 48, 0, 0, FALSE),
       St("buffer", 0, 0, 0, FALSE),
       St("typing", 43, 1, 0, FALSE),
       St("buffer", 0, 0, 0, FALSE),
       St("enter", 0, 0, 0, FALSE),
       St("pause", 8, 0, 0, FALSE),
       St("spinner", 30, 0, 0, FALSE),
       St("spinner", 24, 0, 0, FALSE),
       St("spinner", 18, 0, 0, FALSE),
       St("output", 8, 0, 8, TRUE),
       St("pause", 48, 0, 0, FALSE),
       St("output", 9, 0, 8, TRUE),
       St("pause", 72, 0, 0, FALSE),
       St("buffer", 0, 0, 0, FALSE),
       St("buffer", 0, 0, 0, FALSE),
       St("typing", 55, 1, 0, FALSE),
       St("buffer", 0, 0, 0, FALSE),
       St("enter", 0, 0, 0, FALSE),
       St("pause_no_prompt", 24, 0, 0, FALSE),
       St("typing", 34, 1, 0, FALSE),
       St("buffer", 0, 0, 0, FALSE),
       St("pause_no_prompt", 24, 0, 0, FALSE),
       St("wink", 0, 0, 0, FALSE),
       St("buffer", 0, 0, 0, FALSE),
       St("pause_no_prompt", 24, 0, 0, FALSE),
       St("buffer", 0, 0, 0, FALSE),
       St("buffer", 0, 0, 0, FALSE),
       St("breathing", 96, 0, 0, FALSE) >>

Script_v6 ==
    << St("pause_no_prompt", 12, 0, 0, FALSE),
       St("typing", 48, 2, 0, FALSE),
       St("buffer", 0, 0, 0, FALSE),
       St("pause_no_prompt", 24, 0, 0, FALSE),
       St("typing", 46, 2, 0, FALSE),
       St("buffer", 0, 0, 0, FALSE),
       St("pause_no_prompt", 24, 0, 0, FALSE),
       St("buffer", 0, 0, 0, FALSE),
       St("typing", 46, 1, 0, FALSE),
       St("buffer", 0, 0, 0, FALSE),
       St("tok", 0, 0, 0, FALSE),
       St("pause", 8, 0, 0, FALSE),
       St("spinner", 30, 0, 0, FALSE),
       St("spinner", 18, 0, 0, FALSE),
       St("output", 9, 0, 4, FALSE),
       St("pause", 48, 0, 0, FALSE),
       St("buffer", 0, 0, 0, FALSE),
       St("typing", 35, 1, 0, FALSE),
       St("buffer", 0, 0, 0, FALSE),
       St("tok", 0, 0, 0, FALSE),
       St("pause", 8, 0, 0, FALSE),
       St("spinner", 24, 0, 0, FALSE),
       St("spinner", 18, 0, 0, FALSE),
       St("output", 8, 0, 4, FALSE),
       St("pause", 48, 0, 0, FALSE),
       St("buffer", 0, 0, 0, FALSE),
       St("typing", 43, 1, 0, FALSE),
       St("buffer", 0, 0, 0, FALSE),
       St("tok", 0, 0, 0, FALSE),
       St("pause", 8, 0, 0, FALSE),
       St("spinner", 30, 0, 0, FALSE),
       St("spinner", 24, 0, 0, FALSE),
       St("spinner", 18, 0, 0, FALSE),
       St("bell", 0, 0, 0, FALSE),
       St("output", 8, 0, 8, FALSE),
       St("pause", 48, 0, 0, FALSE),
       St("output", 9, 0, 8, FALSE),
       St("pause", 72, 0, 0, FALSE),
       St("buffer", 0, 0, 0, FALSE),
       St("buffer", 0, 0, 0, FALSE),
       St("typing", 55, 1, 0, FALSE),
       St("buffer", 0, 0, 0, FALSE),
       St("pause_no_prompt", 24, 0, 0, FALSE),
       St("typing", 34, 1, 0, FALSE),
       St("buffer", 0, 0, 0, FALSE),
       St("pause_no_prompt", 24, 0, 0, FALSE),
       St("wink", 0, 0, 0, FALSE),
       St("buffer", 0, 0, 0, FALSE),
       St("pause_no_prompt", 24, 0, 0, FALSE),
       St("buffer", 0, 0, 0, FALSE),
       St("buffer", 0, 0, 0, FALSE),
       St("breathing", 96, 0, 0, FALSE) >>

\* a timeline whose last statement marks an event
Shipped_event_last(v) ==
    CASE v = "v4" -> Append(Script_v4, St("typing", 1, 1, 0, FALSE))
      [] v = "v5" -> Append(Script_v5, St("enter", 0, 0, 0, FALSE))
      [] v = "v6" -> Append(Script_v6, St("bell", 0, 0, 0, FALSE))

Shipped(v) ==
    CASE v = "v4" -> Script_v4
      [] v = "v5" -> Script_v5
      [] v = "v6" -> Script_v6

InitShipped ==
    /\ variant \in {"v4", "v5", "v6"}
    /\ pc = "shipped"
    /\ ip = 1
    /\ frame_count = 0
    /\ frames = <<>>
    /\ current_lines = <<>>
    /\ scroll_y = 0
    /\ keystroke_frames = <<>>
    /\ enter_frames = <<>>
    /\ completion_frames = <<>>
    /\ tok_frames = <<>>
    /\ bell_frames = <<>>
    /\ total_samples = 0
    /\ renders = 0
    /\ scrolls = 0
    /\ steplog = <<>>
    /\ requested = 0
    /\ beat = NoBeat
    /\ nbeats = 0
    /\ sc_start = 0 /\ sc_current = 0 /\ sc_target = 0 /\ sc_ticks = 0
    /\ exportlog = <<>> /\ frame_dir = "none" /\ saved = <<>> /\ mp4 = "absent"
    /\ au_total_frames = 0 /\ audio = <<>>

\* the statement at ip is one of ops
At(ops) ==
    /\ pc = "shipped"
    /\ ip <= Len(Shipped(variant))
    /\ Shipped(variant)[ip].op \in ops

ShipKeeps ==
    /\ ip' = ip + 1
    /\ UNCHANGED <<variant, pc, frames, current_lines, scroll_y, total_samples, renders,
                   scrolls, steplog, requested, beat, nbeats, sc_vars, ex_vars, au_vars>>

\* add_typing: the frames of the characters with i % speed == 0 are stored at
\* first, first + 1, ...; the events are the indices of those that click
typing_clicks(v, first, n, speed) ==
    LET captured == [c \in 1..((n + speed - 1) \div speed) |-> first + c - 1]
        clicks(e) == Keystroke(v, (e - first) * speed)
    IN  SelectSeq(captured, clicks)

ShipTyping ==
    /\ At({"typing"})
    /\ LET st == Shipped(variant)[ip]
       IN  /\ frame_count' = frame_count + (st.n + st.speed - 1) \div st.speed
           /\ keystroke_frames' =
                 keystroke_frames \o typing_clicks(variant, frame_count, st.n, st.speed)
    /\ UNCHANGED <<enter_frames, completion_frames, tok_frames, bell_frames>>
    /\ ShipKeeps

\* add_pause, add_pause_no_prompt, add_spinner_progress, add_breathing_pause:
\* n_frames frames
ShipTicks ==
    /\ At({"pause", "pause_no_prompt", "spinner", "breathing"})
    /\ frame_count' = frame_count + Shipped(variant)[ip].n
    /\ UNCHANGED <<keystroke_frames, enter_frames, completion_frames, tok_frames, bell_frames>>
    /\ ShipKeeps

\* add_output_lines: delay frames per line, then add_flash() in v4 and v5
ShipOutput ==
    /\ At({"output"})
    /\ LET st == Shipped(variant)[ip]
           reveal == st.n * st.delay
       IN  /\ frame_count' = frame_count + reveal + (IF st.flash THEN FLASH_DEFAULT ELSE 0)
           /\ completion_frames' =
                 IF st.flash /\ variant = "v5"
                 THEN Append(completion_frames, frame_count + reveal)
                 ELSE completion_frames
    /\ UNCHANGED <<keystroke_frames, enter_frames, tok_frames, bell_frames>>
    /\ ShipKeeps

\* the wink loop
ShipWink ==
    /\ At({"wink"})
    /\ frame_count' = frame_count + WINK_CYCLES * (WINK_ON + WINK_OFF)
    /\ UNCHANGED <<keystroke_frames, enter_frames, completion_frames, tok_frames, bell_frames>>
    /\ ShipKeeps

\* an assignment to the line buffer: no frame, no event
ShipBuffer ==
    /\ At({"buffer"})
    /\ UNCHANGED <<frame_count, keystroke_frames, enter_frames, completion_frames,
                   tok_frames, bell_frames>>
    /\ ShipKeeps

\* add_enter, add_tok, add_bell
ShipMark ==
    /\ At({"enter", "tok", "bell"})
    /\ LET op == Shipped(variant)[ip].op
       IN  /\ enter_frames' = IF op = "enter" THEN Append(enter_frames, frame_count)
                                ELSE enter_frames
           /\ tok_frames' = IF op = "tok" THEN Append(tok_frames, frame_count) ELSE tok_frames
           /\ bell_frames' = IF op = "bell" THEN Append(bell_frames, frame_count)
                               ELSE bell_frames
    /\ UNCHANGED <<frame_count, keystroke_frames, completion_frames>>
    /\ ShipKeeps

\* generate_audio(len(frames), ...) once the last statement has run
ShipExport ==
    /\ pc = "shipped"
    /\ ip = Len(Shipped(variant)) + 1
    /\ pc' = "shipped_export"
    /\ total_samples' = audio_length(frame_count)
    /\ UNCHANGED <<variant, frames, current_lines, scroll_y, keystroke_frames, enter_frames,
                   completion_frames, tok_frames, bell_frames, renders, scrolls, steplog,
                   requested, beat, nbeats, sc_vars, ex_vars, au_vars, sh_vars>>

NextShipped ==
    \/ ShipTyping
    \/ ShipTicks
    \/ ShipOutput
    \/ ShipWink
    \/ ShipBuffer
    \/ ShipMark
    \/ ShipExport

SpecShipped == InitShipped /\ [][NextShipped]_vars

\* ------------------------------------------------------------------------
\* Properties
\* ------------------------------------------------------------------------
\* frames (1-based) captured by the beat that ran last
BeatFrames == (beat.first + 1)..Len(frames)

\* C1: after any sequence of beats, len(frames) is the sum of the ticks the
\* beats asked for (n for the pauses, the flash and the spinner, len(output) *
\* delay for a reveal, one per character index i with i % speed = 0 for typing,
\* 5 + 4 per wink cycle).
C1_FrameCount == Len(frames) = requested

C1_Witness ==
    /\ nbeats = 2 /\ beat.kind = "typing" /\ beat.speed = 2 /\ beat.text = Txt5
    /\ beat.first > 0 /\ Len(frames) = beat.first + 3

\* C2 as stated: render_frame has been called exactly once per captured
\* frame, whatever beats ran.
C2_RendersEqualFrames == renders = Len(frames)

\* C2 amended: a beat calls render_frame once per captured frame, except
\* add_typing, which calls it once per character of text and captures only
\* the characters at an index i with i % speed = 0.
C2_RendersPerBeat ==
    LET dr == renders - beat.renders0
        df == Len(frames) - beat.first
    IN  /\ renders >= Len(frames)
        /\ IF beat.kind = "typing"
           THEN /\ dr = Len(beat.text)
                /\ df = Cardinality({i \in 0..(Len(beat.text) - 1) : i % beat.speed = 0})
           ELSE dr = df

C2_Witness ==
    /\ beat.kind = "typing" /\ beat.speed = 2 /\ beat.text = Txt4
    /\ renders = Len(frames) + 2

\* C3: add_typing(text, speed=1) appends len(text) frames, and the k-th of
\* them is rendered with the cursor line holding the first k characters of
\* text after the (unchanging) prompt prefix.
C3_TypingFrames ==
    (beat.kind = "typing" /\ beat.speed = 1) =>
        /\ Len(frames) = beat.first + Len(beat.text)
        /\ \A k \in 1..Len(beat.text) :
             LET f == frames[beat.first + k]
                 cp == f.cursor_parts.parts
             IN  /\ f.cursor_parts.some /\ f.cursor_visible
                 /\ Len(cp) >= 1
                 /\ cp[Len(cp)][1] = SubSeq(beat.text, 1, k)
                 /\ Len(cp[Len(cp)][1]) = k
                 /\ SubSeq(cp, 1, Len(cp) - 1)
                      = SubSeq(frames[beat.first + 1].cursor_parts.parts, 1, Len(cp) - 1)
                 /\ f.n_lines = beat.lines0

C3_Witness ==
    /\ beat.kind = "typing" /\ beat.speed = 1 /\ beat.text = Txt10
    /\ beat.first > 0 /\ Len(frames) = beat.first + 10
    /\ frames[Len(frames)].cursor_parts.parts[2][1] = Txt10

\* what draw_extra fills for a computed width w
DrawnWidth(w) == IF w > 10 THEN w ELSE 0

\* C4: for add_spinner_progress with progress_start <= progress_end the
\* drawn fill width never decreases from one frame to the next; every frame
\* has fill = int(880 * progress), drawn as 0 when that is <= 10; the first
\* frame shows int(880 * progress_start) and, for n_frames >= 2, the last
\* int(880 * progress_end): 0 and 880 for the beat called with 30, 0.0, 1.0.
C4_BarFill ==
    (beat.kind = "spinner" /\ beat.p_start <= beat.p_end) =>
        /\ Len(frames) = beat.first + beat.n
        /\ \A j \in BeatFrames :
             LET e == frames[j].extra_draw
             IN  /\ e.on
                 /\ e.fill_w * e.p_den <= 880 * e.p_num
                 /\ 880 * e.p_num < (e.fill_w + 1) * e.p_den
                 /\ e.drawn_w = DrawnWidth(e.fill_w)
        /\ \A j, k \in BeatFrames :
             j <= k => frames[j].extra_draw.drawn_w <= frames[k].extra_draw.drawn_w
        /\ beat.n >= 1 =>
             frames[beat.first + 1].extra_draw.drawn_w
                 = DrawnWidth((880 * beat.p_start) \div 100)
        /\ beat.n >= 2 =>
             frames[Len(frames)].extra_draw.drawn_w
                 = DrawnWidth((880 * beat.p_end) \div 100)
        /\ (beat.n = 30 /\ beat.p_start = 0 /\ beat.p_end = 100) =>
             /\ frames[beat.first + 1].extra_draw.drawn_w = 0
             /\ frames[Len(frames)].extra_draw.drawn_w = 880

C4_Witness ==
    /\ beat.kind = "spinner" /\ beat.n = 30 /\ beat.p_start = 0 /\ beat.p_end = 100
    /\ Len(frames) = beat.first + 30
    /\ frames[beat.first + 1].extra_draw.drawn_w = 0
    /\ frames[beat.first + 2].extra_draw.drawn_w = 30
    /\ frames[Len(frames)].extra_draw.drawn_w = 880

\* C5: target_scroll of a buffer of n lines is 0 for n <= 18 and
\* 92 n - 1720 for n >= 19; it is never negative and never decreases as
\* the buffer grows.
C5_TargetScroll ==
    LET n == Len(current_lines)
        t == target_scroll(current_lines)
    IN  /\ t >= 0
        /\ t = (IF n <= 18 THEN 0 ELSE 92 * n - 1720)
        /\ \A k \in 0..n :
             LET tk == target_scroll(SubSeq(current_lines, 1, k))
             IN  /\ tk = (IF k <= 18 THEN 0 ELSE 92 * k - 1720)
                 /\ tk <= t
                 /\ k < n => tk <= target_scroll(SubSeq(current_lines, 1, k + 1))

C5_Witness ==
    /\ Len(current_lines) = 25
    /\ target_scroll(current_lines) = 580
    /\ target_scroll(SubSeq(current_lines, 1, 18)) = 0
    /\ target_scroll(SubSeq(current_lines, 1, 19)) = 28

\* C6: in each of the four variants, one smooth_scroll step returns the
\* target itself when it is less than one pixel away, and otherwise moves
\* by 0.15 of the distance (to the resolution of the fixed point).
C6_Step ==
    LET d == sc_target - sc_current
        r == sc_current' - sc_current
    IN  IF Abs(d) < Unit THEN sc_current' = sc_target
        ELSE IF d > 0 THEN 100 * r <= 15 * d /\ 15 * d < 100 * (r + 1)
                      ELSE 100 * r >= 15 * d /\ 15 * d > 100 * (r - 1)

C6_SmoothScroll == [][sc_ticks' = sc_ticks + 1 => C6_Step]_vars

C6_Witness ==
    /\ variant = "v6" /\ sc_ticks = 2
    /\ sc_start = 0 /\ sc_target = 276 * Unit
    /\ sc_current = 276 * Unit - (276 * 85 * 85 * Unit) \div 10000

\* smallest m with px < 2^m
RECURSIVE Bits(_)
Bits(px) == IF px <= 0 THEN 0 ELSE 1 + Bits(px \div 2)

\* five steps at least halve the distance (0.85^5 < 1/2), one more snaps
TickBound(dist) == 5 * Bits(dist \div Unit) + 1

\* C7: iterating smooth_scroll toward a fixed target, the offset equals the
\* target after at most TickBound(initial distance) ticks, and once equal
\* it stays equal.
C7_Reached == sc_ticks >= TickBound(Abs(sc_target - sc_start)) => sc_current = sc_target

C7_Stays == sc_current = sc_target => sc_current' = sc_target'

C7_Converges == []C7_Reached /\ [][C7_Stays]_vars

C7_Witness ==
    /\ sc_start = -300 * Unit /\ sc_target = 2696 * Unit
    /\ sc_ticks > 40 /\ sc_ticks < TickBound(2996 * Unit)
    /\ sc_current = sc_target

\* y of the newest line of frame f, and whether it lies inside the viewport
NewestY(f) == LineY(f, f.n_lines - 1)
NewestVisible(f) == TITLE_BAR_H <= NewestY(f) /\ NewestY(f) + LINE_H <= H

C9_OneStepPerFrame == scrolls = Len(frames)

\* the target a frame of the last beat is scrolled toward, for n lines
ClosedTarget(n) == IF n <= 18 THEN 0 ELSE 92 * n - 1720
BeatTarget(n) ==
    CASE beat.kind = "typing"  -> ClosedTarget(n + 1)
      [] beat.kind = "spinner" -> ClosedTarget(n) + 276
      [] OTHER                 -> ClosedTarget(n)

\* C9 amended: scroll_y takes exactly one smooth_scroll step per
\* render_frame call, toward target_scroll of the buffer (of the buffer plus
\* the cursor line in add_typing, plus 3 * LINE_H in add_spinner_progress);
\* that is one step per captured frame in every beat except add_typing,
\* which steps once per character while capturing every speed-th one.
C9_OneStepPerRender ==
    /\ scrolls = renders
    /\ Len(steplog) = Len(frames)
    /\ scrolls - beat.scrolls0 =
         (IF beat.kind = "typing" THEN Len(beat.text) ELSE Len(frames) - beat.first)
    /\ \A k \in BeatFrames :
         /\ steplog[k].tgt = BeatTarget(frames[k].n_lines)
         /\ steplog[k].cur = frames[k].scroll_offset
         /\ Abs(steplog[k].tgt * Unit - steplog[k].cur)
              <= Abs(steplog[k].tgt * Unit - steplog[k].prev)

C9_Witness ==
    /\ beat.kind = "typing" /\ beat.speed = 2 /\ beat.text = Txt5
    /\ beat.lines0 = 24
    /\ scrolls = Len(frames) + 2
    /\ steplog[Len(frames)].tgt = 580

\* C10 as stated: the sample buffer has ceil(N / FPS * SAMPLE_RATE) samples.
C10_LengthIsCeil ==
    (pc = "wav_written" /\ variant # "v2") =>
        /\ Len(frames) * 44100 <= total_samples * 24
        /\ total_samples * 24 < Len(frames) * 44100 + 24

\* C10 amended: the sample buffer has floor(N / FPS * SAMPLE_RATE) samples
\* (int() truncates), which is the ceiling only for even N.
C10_LengthIsFloor ==
    (pc = "wav_written" /\ variant # "v2") =>
        /\ total_samples * 24 <= Len(frames) * 44100
        /\ Len(frames) * 44100 < (total_samples + 1) * 24
        /\ (Len(frames) % 2 = 0 => 2 * total_samples = Len(frames) * 3675)
        /\ (Len(frames) % 2 = 1 => 2 * total_samples = Len(frames) * 3675 - 1)

C10_Witness ==
    /\ pc = "wav_written" /\ variant = "v5"
    /\ Len(frames) = 13 /\ total_samples = 23887

\* ------------------------------------------------------------------------
\* Audio mixing (under SpecAudio)
\* ------------------------------------------------------------------------
\* the recorded events: <<kind, place in its list, frame index>>
Events ==
    UNION {{<<AudioKinds(variant)[k], j, event_lists[AudioKinds(variant)[k]][j]>> :
              j \in 1..Len(event_lists[AudioKinds(variant)[k]])} :
           k \in 1..Len(AudioKinds(variant))}

\* floor(f / FPS * SAMPLE_RATE)
StartOf(f) == (f * 44100) \div 24

\* the waveform samples mixed into cell idx
PartsAt(idx) == {audio[idx].parts[p] : p \in 1..Len(audio[idx].parts)}

\* C11: however many events overlap at a sample, the sample handed to the
\* waveform file is int(clamped * 32767) with clamped in [-1, 1]: an integer
\* in [-32768, 32767], the extreme +-32767 when the mixed value is beyond +-1.
C11_QuantizedInRange ==
    pc = "mixed" =>
        \A idx \in DOMAIN audio :
            idx < total_samples =>
                /\ audio[idx].pcm \in -32768..32767
                /\ audio[idx].raw >= SampleUnit => audio[idx].pcm = 32767
                /\ audio[idx].raw <= -SampleUnit => audio[idx].pcm = -32767
                /\ audio[idx].raw \in 0..SampleUnit =>
                       audio[idx].pcm = (audio[idx].raw * 32767) \div SampleUnit
                /\ audio[idx].raw \in (-SampleUnit)..0 =>
                       audio[idx].pcm = -(((-audio[idx].raw) * 32767) \div SampleUnit)

\* overlapping events drive a mixed sample above 1.0 and it is written as 32767
C11_Witness ==
    /\ pc = "mixed"
    /\ \E idx \in DOMAIN audio :
         /\ idx < total_samples
         /\ audio[idx].raw > SampleUnit
         /\ Len(audio[idx].parts) >= 2
         /\ audio[idx].pcm = 32767

\* C12: an event recorded at a frame index >= total_frames adds nothing to
\* the buffer and no index past the buffer is touched (no IndexError); an
\* event recorded at a frame index < total_frames adds at least sample 0 of
\* its waveform, at its start position.
C12_DroppedOrHeard ==
    pc = "mixed" =>
        /\ \A e \in Events :
             IF e[3] >= au_total_frames
             THEN \A idx \in DOMAIN audio :
                    \A p \in PartsAt(idx) : ~(p[1] = e[1] /\ p[2] = e[2])
             ELSE /\ StartOf(e[3]) \in DOMAIN audio
                  /\ StartOf(e[3]) < total_samples
                  /\ <<e[1], e[2], 0>> \in PartsAt(StartOf(e[3]))
        /\ \A idx \in DOMAIN audio : idx >= total_samples => audio[idx].parts = <<>>

\* a run with an event past the last frame and an event inside the video
C12_Witness ==
    /\ pc = "mixed"
    /\ au_total_frames > 0
    /\ \E e \in Events : e[3] >= au_total_frames
    /\ \E e \in Events : e[3] < au_total_frames /\ <<e[1], e[2], 0>> \in PartsAt(StartOf(e[3]))

\* C13: sample i of the waveform of an event recorded at frame f is added to
\* buffer index floor(f / FPS * SAMPLE_RATE) + i exactly when that index is
\* below the buffer length; nothing else is added, nothing is added at or
\* past the length, and an event that runs past the end keeps the samples
\* that fit.
C13_Placement ==
    pc = "mixed" =>
        \A idx \in DOMAIN audio :
            /\ \A e \in Events :
                 LET i == idx - StartOf(e[3])
                 IN  (<<e[1], e[2], i>> \in PartsAt(idx))
                       <=> (i \in 0..(n_samples(variant, e[1]) - 1) /\ idx < total_samples)
            /\ \A p \in PartsAt(idx) :
                 \E e \in Events : p[1] = e[1] /\ p[2] = e[2] /\ p[3] = idx - StartOf(e[3])
            /\ Len(audio[idx].parts) = Cardinality(PartsAt(idx))
            /\ idx >= total_samples => audio[idx].parts = <<>>

\* an event whose waveform runs past the end: its sample at the last buffer
\* index is mixed, the one after it is not
C13_Witness ==
    /\ pc = "mixed"
    /\ total_samples > 0
    /\ \E e \in Events :
         /\ StartOf(e[3]) < total_samples
         /\ total_samples < StartOf(e[3]) + n_samples(variant, e[1])
         /\ <<e[1], e[2], total_samples - 1 - StartOf(e[3])>> \in PartsAt(total_samples - 1)
         /\ audio[total_samples].parts = <<>>

\* the contributions to index idx of the events j, j-1, ..., 1 of a list
RECURSIVE SumListBackward(_, _, _, _)
SumListBackward(kind, list, j, idx) ==
    IF j < 1 THEN 0
    ELSE (IF idx - StartOf(list[j]) \in 0..(n_samples(variant, kind) - 1)
          THEN wave(variant, kind, idx - StartOf(list[j])) ELSE 0)
         + SumListBackward(kind, list, j - 1, idx)

\* ... of the event lists k, k-1, ..., 1
RECURSIVE SumKindsBackward(_, _)
SumKindsBackward(k, idx) ==
    IF k < 1 THEN 0
    ELSE SumListBackward(AudioKinds(variant)[k], event_lists[AudioKinds(variant)[k]],
                         Len(event_lists[AudioKinds(variant)[k]]), idx)
         + SumKindsBackward(k - 1, idx)

IsContentOp(o) == o.op \in {"lines", "cursor", "extra_draw"}
IsTitleOp(o) == o.op \in {"title_rect", "draw_title_bar"}

\* C16: in every frame the title bar is drawn last, after the content lines,
\* the cursor and the extra_draw overlay, and it paints all of the header
\* rows 0..TITLE_BAR_H: whatever those steps painted in the header rows is
\* painted over.
C16_TitleBarLast ==
    \A j \in 1..Len(frames) :
        LET ops == frames[j].ops
        IN  /\ Len(ops) >= 2
            /\ ops[Len(ops)].op = "draw_title_bar"
            /\ ops[Len(ops) - 1].op = "title_rect"
            /\ \A k \in 1..(Len(ops) - 2) : IsContentOp(ops[k])
            /\ \A k \in 1..Len(ops) :
                 (IsContentOp(ops[k]) /\ ops[k].top <= TITLE_BAR_H /\ ops[k].bottom >= 0) =>
                     \E m \in (k + 1)..Len(ops) :
                         IsTitleOp(ops[m]) /\ ops[m].top <= 0 /\ ops[m].bottom >= TITLE_BAR_H

\* a frame whose content lines reach into the header rows, with a cursor
C16_Witness ==
    \E j \in 1..Len(frames) :
        /\ \E k \in 1..Len(frames[j].ops) :
             frames[j].ops[k].op = "lines" /\ frames[j].ops[k].top < TITLE_BAR_H
        /\ \E k \in 1..Len(frames[j].ops) : frames[j].ops[k].op = "cursor"

\* y of content line idx of frame f, from its scroll offset
ContentY(f, idx) == 96 + 80 - (f.scroll_offset \div Unit) + idx * 92

\* C17: content line idx is drawn iff TITLE_BAR_H - LINE_H <= y <= H for
\* y = TITLE_BAR_H + PAD_Y - int(scroll_offset) + idx * LINE_H; a skipped line
\* has no row inside the viewport below the header, and a line with a row
\* there is drawn.
C17_DrawnIffInViewport ==
    \A j \in 1..Len(frames) :
        \A idx \in 0..(frames[j].n_lines - 1) :
            LET y == ContentY(frames[j], idx)
            IN  /\ (idx \in frames[j].drawn) <=> (96 - 92 <= y /\ y <= 2160)
                /\ (idx \notin frames[j].drawn) => (y + 92 < 96 \/ y > 2160)
                /\ (y + 92 > 96 /\ y < 2160) => idx \in frames[j].drawn

\* a frame with a line skipped above the header, a line drawn partly under
\* the header, and another frame with a line skipped below the viewport
C17_Witness ==
    /\ \E j \in 1..Len(frames) :
         /\ \E idx \in 0..(frames[j].n_lines - 1) :
              idx \notin frames[j].drawn /\ ContentY(frames[j], idx) < 4
         /\ \E idx \in frames[j].drawn : ContentY(frames[j], idx) < 96
    /\ \E j \in 1..Len(frames) :
         \E idx \in 0..(frames[j].n_lines - 1) :
              idx \notin frames[j].drawn /\ ContentY(frames[j], idx) > 2160

\* ------------------------------------------------------------------------
\* Line buffer
\* ------------------------------------------------------------------------
\* one step keeps every line of the buffer, but the last one when the step
\* is the wink or v4's add_breathing_pause
C18_Step ==
    /\ Len(current_lines') >= Len(current_lines)
    /\ \A i \in 1..Len(current_lines) :
         current_lines'[i] # current_lines[i] =>
             /\ i = Len(current_lines)
             /\ Len(current_lines') = Len(current_lines)
             /\ \/ beat'.kind = "wink"
                \/ variant = "v4" /\ beat'.kind = "breathing"

\* C18: across every beat and script step the line buffer never gets
\* shorter (also frame by frame inside a beat), and a line already in it
\* changes only if it is the last line and the step is the wink toggle or,
\* in v4, add_breathing_pause.
C18_AppendOnly ==
    /\ [](\A j \in 1..(Len(frames) - 1) : frames[j].n_lines <= frames[j + 1].n_lines)
    /\ [][C18_Step]_vars

\* the wink has toggled the last of several lines between its two texts
C18_Witness ==
    /\ beat.kind = "wink"
    /\ Len(current_lines) >= 2
    /\ current_lines[Len(current_lines)] = wink_line_with(variant)
    /\ \E j, k \in BeatFrames :
         /\ frames[j].n_lines = frames[k].n_lines
         /\ frames[j].newest = wink_line_with(variant)
         /\ frames[k].newest = wink_line_without(variant)

\* ------------------------------------------------------------------------
\* Export
\* ------------------------------------------------------------------------
ExportOrder(v) ==
    IF v = "v2" THEN <<"frames", "encode", "rmtree">>
    ELSE <<"frames", "wav", "silent", "mux", "rmtree">>

IsPrefix(a, b) == Len(a) <= Len(b) /\ \A i \in 1..Len(a) : a[i] = b[i]

\* the number a frame file's name spells
NameValue(name) ==
    name[1] * 10000 + name[2] * 1000 + name[3] * 100 + name[4] * 10 + name[5]

C19_Order ==
    /\ IsPrefix(exportlog, ExportOrder(variant))
    /\ (pc = "script") <=> (exportlog = <<>>)
    /\ pc = "done" => exportlog = ExportOrder(variant)
    /\ exportlog # <<>> =>
         /\ Len(saved) = Len(frames)
         /\ \A k \in 1..Len(saved) : Len(saved[k]) = 5 /\ NameValue(saved[k]) = k - 1
    /\ variant = "v2" =>
         Cardinality({i \in 1..Len(exportlog) :
                        exportlog[i] \in {"encode", "silent", "mux"}}) <= 1

\* once the export has begun no frame is appended and no event is recorded
C19_Frozen ==
    pc # "script" =>
        UNCHANGED <<frames, current_lines, keystroke_frames, enter_frames,
                    completion_frames, tok_frames, bell_frames>>

\* C19: the export runs once, after the beats, in the order frame files
\* (named by the zero-padded indices 0..N-1, in list order), waveform (v4,
\* v5, v6), silent encoder pass, mux pass, removal of the directory (v2:
\* frame files, its one encoder pass, removal); a run that ends normally has
\* made every step, and nothing is appended or recorded once it has begun.
C19_ExportOrder == []C19_Order /\ [][C19_Frozen]_vars

\* an audio variant's run has ended after exporting more than ten frames
C19_Witness ==
    /\ pc = "done" /\ variant # "v2"
    /\ Len(frames) > 10
    /\ saved[11] = <<0, 0, 0, 1, 0>>
    /\ exportlog = <<"frames", "wav", "silent", "mux", "rmtree">>

\* C20: whatever the encoder invocations did, when the run has ended the
\* temporary directory no longer exists.
C20_DirDeleted ==
    pc \in {"done", "crashed"} => frame_dir = "deleted"

\* C21: a failed encoder invocation, one that leaves no file at the output
\* path included, raises no error: the script reaches its normal end.
C21_FailedEncodeEndsNormally ==
    pc # "crashed"

\* a beat call was made with a zero-length input
ZeroLength(b) ==
    \/ b.kind = "typing" /\ b.text = <<>>
    \/ b.kind = "output" /\ b.n = 0
    \/ b.kind = "pause" /\ b.n = 0
    \/ b.kind = "spinner" /\ b.n \in {0, 1}

C22_Step ==
    nbeats' = nbeats + 1 /\ ZeroLength(beat') =>
        /\ pc' = "script"
        /\ beat'.kind = "spinner" => Len(frames') = Len(frames) + beat'.n
        /\ beat'.kind = "typing" =>
              UNCHANGED <<frames, current_lines, scroll_y, keystroke_frames, enter_frames,
                          completion_frames, tok_frames, bell_frames>>

\* C22: add_typing with empty text, add_output_lines with an empty list,
\* add_pause with n_frames = 0 and add_spinner_progress with n_frames = 0 or 1
\* return normally (the one-frame spinner divides by max(n_frames - 1, 1),
\* never by zero); add_typing with empty text captures no frame, records no
\* audio event and leaves the scroll offset and the line buffer as they were.
C22_ZeroLengthReturns == [][C22_Step]_vars

\* the one-frame spinner has run and captured its frame, and the script goes on
C22_Witness ==
    /\ beat.kind = "spinner" /\ beat.n = 1
    /\ Len(frames) = beat.first + 1
    /\ frames[Len(frames)].extra_draw.p_num = 0
    /\ pc = "script"

\* a line of exactly one run whose text is the prompt icon with no space after it
Standalone(line) == Len(line) = 1 /\ line[1][1] = <<"moku">>

C23_Frames ==
    (variant \in {"v5", "v6"} /\ beat.kind = "breathing" /\ pc = "script") =>
        \A j \in (beat.first + 1)..Len(frames) :
            /\ frames[j].n_lines = Len(current_lines)
            /\ frames[j].signoff_color = breath_color(j - beat.first - 1)
            /\ frames[j].fills =
                  {<<idx, frames[j].signoff_color>> : idx \in
                      {i \in frames[j].drawn : Standalone(current_lines[i + 1])}}

C23_Step ==
    (variant \in {"v5", "v6"} /\ nbeats' = nbeats + 1 /\ beat'.kind = "breathing") =>
        current_lines' = current_lines

\* C23: in v5 and v6, in every frame of add_breathing_pause the breathing
\* colour replaces the stored colour of exactly the drawn lines that consist
\* of one run whose text is the prompt icon alone; every other line, each
\* prompt-prefixed command line included, is drawn in its stored colour; and
\* the beat leaves the line buffer as it was.
C23_OnlySignoffBreathes == []C23_Frames /\ [][C23_Step]_vars

\* v5 breathes over a command line and the signoff line: only the second is recoloured
C23_Witness ==
    /\ variant = "v5" /\ beat.kind = "breathing" /\ Len(frames) = beat.first + 3
    /\ current_lines = SignoffBlock
    /\ frames[Len(frames)].drawn = {0, 1}
    /\ frames[Len(frames)].fills = {<<1, breath_color(2)>>}

\* the keystroke events recorded since the last beat began
NewKeystrokes == SubSeq(keystroke_frames, beat.keys0 + 1, Len(keystroke_frames))

\* the text typed so far that frame f shows on its cursor line
TypedIn(f) == f.cursor_parts.parts[Len(f.cursor_parts.parts)][1]

C24_Typing ==
    (beat.kind = "typing" /\ pc = "script") =>
        LET m == Len(frames) - beat.first
            \* the c-th captured frame (from 0) is the one of character c * speed
            clicked == IF variant = "v4" THEN 0..(m - 1)
                       ELSE IF variant = "v5"
                       THEN {c \in 0..(m - 1) : (c * beat.speed) % 2 = 0}
                       ELSE {}
        IN  /\ \A c \in 0..(m - 1) :
                  TypedIn(frames[beat.first + c + 1]) = SubSeq(beat.text, 1, c * beat.speed + 1)
            /\ Len(NewKeystrokes) = Cardinality(clicked)
            /\ {NewKeystrokes[k] : k \in 1..Len(NewKeystrokes)} =
                  {beat.first + c : c \in clicked}

C24_Step ==
    (nbeats' = nbeats + 1 /\ beat'.kind # "typing") => keystroke_frames' = keystroke_frames

\* C24: keystroke events are recorded by add_typing only, one per captured
\* frame in v4 and one per captured frame of a character at an even index in
\* v5, none in v2 and v6; each event is the index at which the frame captured
\* for that character is stored in the frame list.
C24_KeystrokeEvents == []C24_Typing /\ [][C24_Step]_vars

\* v5 types ten characters at speed 1: ten frames, five keystrokes
C24_Witness ==
    /\ variant = "v5" /\ beat.kind = "typing" /\ beat.text = Txt10 /\ beat.speed = 1
    /\ Len(frames) = beat.first + 10
    /\ NewKeystrokes = <<beat.first, beat.first + 2, beat.first + 4, beat.first + 6,
                          beat.first + 8>>

\* ceil(j / delay) for delay > 0
CeilDiv(j, delay) == (j + delay - 1) \div delay

C25_Reveal ==
    (beat.kind = "output" /\ pc = "script") =>
        LET n == beat.n
            reveal == n * beat.delay
            flashes == Len(frames) - beat.first - reveal
            tones == SubSeq(completion_frames, beat.tones0 + 1, Len(completion_frames))
        IN  /\ Len(current_lines) = beat.lines0 + n
            /\ SubSeq(current_lines, beat.lines0 + 1, beat.lines0 + n) = beat.text
            /\ \A j \in 1..reveal :
                  /\ frames[beat.first + j].n_lines = beat.lines0 + CeilDiv(j, beat.delay)
                  /\ frames[beat.first + j].newest = beat.text[CeilDiv(j, beat.delay)]
            /\ flashes = IF beat.flash THEN 6 ELSE 0
            /\ \A j \in 1..flashes :
                  frames[beat.first + reveal + j].n_lines = beat.lines0 + n
            /\ tones = IF beat.flash /\ variant = "v5" THEN <<beat.first + reveal>> ELSE <<>>

\* C25: add_output_lines appends line k before any of its delay frames is
\* captured, so the j-th frame of the reveal shows exactly the first
\* ceil(j / delay) lines of output; with flash (v4, v5) exactly 6 flash frames
\* follow, and v5 records exactly one completion event, at the index of the
\* first flash frame.
C25_RevealInOrder == []C25_Reveal

\* v5 reveals two lines at three frames each, then flashes
C25_Witness ==
    /\ variant = "v5" /\ beat.kind = "output" /\ beat.n = 2 /\ beat.delay = 3 /\ beat.flash
    /\ Len(frames) = beat.first + 12
    /\ frames[beat.first + 3].n_lines = beat.lines0 + 1
    /\ frames[beat.first + 4].n_lines = beat.lines0 + 2
    /\ completion_frames[Len(completion_frames)] = beat.first + 6

EventKinds == {"click", "enter", "tone", "tok", "bell"}

NonDecreasing(list) == \A j \in 1..(Len(list) - 1) : list[j] <= list[j + 1]

C26_Ordered ==
    \A kind \in EventKinds :
        /\ NonDecreasing(event_lists[kind])
        /\ \A j \in 1..Len(event_lists[kind]) : event_lists[kind][j] <= frame_count
        /\ pc = "shipped_export" =>
              \A j \in 1..Len(event_lists[kind]) :
                  /\ event_lists[kind][j] < frame_count
                  /\ sample_pos(event_lists[kind][j]) < total_samples

\* the entries a step appends to a list lie between the frame-list length
\* before the step and the length after it; a marker's is the length before
C26_Step ==
    \A kind \in EventKinds :
        LET old == event_lists[kind]
            new == event_lists[kind]'
        IN  /\ Len(new) >= Len(old)
            /\ SubSeq(new, 1, Len(old)) = old
            /\ \A j \in (Len(old) + 1)..Len(new) :
                  /\ frame_count <= new[j]
                  /\ new[j] <= frame_count'
                  /\ frame_count' = frame_count => new[j] = frame_count

\* C26: in the shipped runs of v4, v5 and v6 each event list is in
\* non-decreasing order of frame index, every event is recorded with the
\* length the frame list has at that moment, and at export every event's
\* index is strictly below the final frame count, so generate_audio places
\* each of them inside the buffer: none is dropped.
C26_EventsInsideTimeline == []C26_Ordered /\ [][C26_Step]_vars

\* the v5 timeline has run to its end: 1145 frames, 155 clicks, 6 enters, 4 tones
C26_Witness ==
    /\ pc = "shipped_export" /\ variant = "v5"
    /\ frame_count = 1145
    /\ Len(keystroke_frames) = 155 /\ Len(enter_frames) = 6 /\ Len(completion_frames) = 4
    /\ keystroke_frames[155] = 972 /\ enter_frames[6] = 916 /\ completion_frames[4] = 783

C27_Step ==
    nbeats' = nbeats + 1 =>
        /\ beat'.kind \in {"typing", "pause", "pause_no_prompt", "spinner", "flash"} =>
              current_lines' = current_lines
        /\ beat'.kind \in {"enter", "tok", "bell"} =>
              UNCHANGED <<frames, current_lines, scroll_y>>
        /\ Len(current_lines') > Len(current_lines) => beat'.kind \in {"append", "output"}

\* C27: add_typing, add_pause, add_pause_no_prompt, add_spinner_progress and
\* add_flash leave the line buffer as it was, in length and in content; the
\* buffer grows only by the script's own append and by add_output_lines, so
\* the typed text enters it only through the append after the typing beat;
\* add_enter, add_tok and add_bell change neither the frame list, the line
\* buffer nor the scroll offset.
C27_BufferUntouched == [][C27_Step]_vars

\* ten characters have been typed under a buffer of 24 lines, which is as long as before
C27_Witness ==
    /\ beat.kind = "typing" /\ beat.text = Txt10
    /\ Len(frames) = beat.first + 10
    /\ beat.lines0 = 24 /\ current_lines = Block(24)
    /\ frames[Len(frames)].cursor_parts.parts[2][1] = Txt10

C28_Bounds ==
    /\ 0 <= scroll_y
    /\ scroll_y <= (target_scroll(current_lines) + 3 * LINE_H) * Unit

\* the step raised the scroll offset to a value above target_scroll(current_lines)
DrivenAbove ==
    /\ nbeats' = nbeats + 1
    /\ scroll_y' > scroll_y
    /\ scroll_y' > target_scroll(current_lines') * Unit

C28_OnlySpinner == DrivenAbove => beat'.kind = "spinner"

C28_SpinnerOrTyping == DrivenAbove => beat'.kind \in {"spinner", "typing"}

\* C28 as stated: 0 <= scroll_y <= target_scroll(current_lines) + 3*LINE_H in
\* every reachable state, and add_spinner_progress is the only beat that
\* drives the offset above target_scroll(current_lines).
C28_ScrollBounds_Stated == []C28_Bounds /\ [][C28_OnlySpinner]_vars

\* C28: 0 <= scroll_y <= target_scroll(current_lines) + 3*LINE_H in every
\* reachable state; the beats that drive the offset above
\* target_scroll(current_lines) are add_spinner_progress, which chases
\* target_scroll(current_lines) + 3*LINE_H, and add_typing, which chases the
\* target of the buffer with the cursor line added.
C28_ScrollBounds == []C28_Bounds /\ [][C28_SpinnerOrTyping]_vars

\* typing under a buffer that just fills the viewport has scrolled past its target
C28_Witness ==
    /\ beat.kind = "typing" /\ Len(frames) > beat.first
    /\ target_scroll(current_lines) = 0
    /\ scroll_y > beat.scroll0
    /\ scroll_y > 0

C29_Step ==
    sc_ticks' = sc_ticks + 1 =>
        /\ Min(sc_current, sc_target) <= sc_current'
        /\ sc_current' <= Max(sc_current, sc_target)
        /\ sc_current # sc_target =>
              Abs(sc_target - sc_current') < Abs(sc_target - sc_current)

\* C29: the result of smooth_scroll(current, target) lies between current and
\* target inclusive, and whenever current differs from target it is strictly
\* closer to target than current was.
C29_NoOvershoot == [][C29_Step]_vars

\* a step downward from a fractional offset that neither snaps nor passes the target
C29_Witness ==
    /\ sc_start = 275 * Unit + Unit \div 4 /\ sc_target = 28 * Unit
    /\ sc_ticks = 1
    /\ sc_target < sc_current /\ sc_current < sc_start

\* the progress drawn on the i-th frame (from 0) of the last beat, as num/den
Shown(i) == frames[beat.first + i + 1].extra_draw

C30_Progress ==
    (beat.kind = "spinner" /\ pc = "script") =>
        LET n == Len(frames) - beat.first
        IN  /\ n = beat.n
            \* the first frame shows progress_start (hundredths)
            /\ n >= 1 => 100 * Shown(0).p_num = beat.p_start * Shown(0).p_den
            \* the last frame shows progress_end
            /\ n >= 2 => 100 * Shown(n - 1).p_num = beat.p_end * Shown(n - 1).p_den
            \* equal steps in between
            /\ \A i \in 0..(n - 1) :
                  /\ Shown(i).p_den = Shown(0).p_den
                  /\ i >= 1 => (n - 1) * (Shown(i).p_num - Shown(i - 1).p_num) =
                                  Shown(n - 1).p_num - Shown(0).p_num
            \* pct = int(progress * 100), inside 0..100 for 0 <= start <= end <= 1
            /\ \A i \in 0..(n - 1) :
                  /\ beat.p_start <= beat.p_end =>
                        /\ Shown(i).pc * Shown(i).p_den <= 100 * Shown(i).p_num
                        /\ 100 * Shown(i).p_num < (Shown(i).pc + 1) * Shown(i).p_den
                  /\ (0 <= beat.p_start /\ beat.p_start <= beat.p_end /\ beat.p_end <= 100) =>
                        Shown(i).pc \in 0..100

====
